---- MODULE Spec2Model ----
(***************************************************************************)
(* Clara Confirms backend: the dual-mode JWT authentication middleware     *)
(* with its Supabase identity cache (auth.middleware.js), the password     *)
(* reset route that invalidates that cache (auth.routes.js), and the       *)
(* per-company ServiceTrade session client (services/servicetrade.js).     *)
(*                                                                         *)
(* Every handler is cut at its awaits: one action is the code that runs    *)
(* between two suspension points, so concurrent requests interleave        *)
(* exactly where Node's event loop lets them.                              *)
(***************************************************************************)
EXTENDS Integers, Sequences, FiniteSets, TLC

VARIABLES
    config,      \* config.jwt.secret / config.supabase.jwtSecret
    users,       \* the users table: a set of rows
    userCache,   \* auth.middleware userCache: Map in insertion order
    now,         \* Date.now(), in abstract ticks
    linkLog,     \* history: the (user id, supabase id) pairs written by updateSupabaseId
    started,     \* how many requests or calls have been started
    areq,        \* per request slot: the auth-side handler in flight and what it did
    tokenCache,  \* servicetrade tokenCache: companyId -> authToken
    nextTok,     \* the next session token the remote will hand out
    calls,       \* per call slot: the servicetrade operation in flight
    companyServicetrade  \* the company_servicetrade table: a set of rows

vars == <<config, users, userCache, now, linkLog, started, areq, tokenCache, nextTok, calls,
          companyServicetrade>>
\* the credentials table is written by the credentials route only: both the
\* auth side and the session client leave it alone
authVars == <<config, users, userCache, now, linkLog, areq, companyServicetrade>>
stVars == <<tokenCache, nextTok, calls, companyServicetrade>>

----------------------------------------------------------------------------
(* Values *)

None == "none"          \* undefined / null of a string-valued field
Nil == <<>>             \* undefined / null of an object-valued field
Some(x) == <<x>>
Truthy(v) == v # None /\ v # ""

\* bounds of the model
MaxTime == 2            \* the clock stops ticking here
MaxTok == 3             \* session tokens the remote hands out
MaxReq == 3             \* requests started in one run

\* auth.middleware constants, scaled to the model's clock and subject set
CACHE_TTL_MS == 1
CACHE_MAX_SIZE == 2

Procs == {"p1", "p2"}

KLocal == "k_local"
KSupa == "k_supabase"
KOther == "k_other"

Subs == {"s1", "s2", "s3"}

Payload(type, userId, companyId, email, role, sub) ==
    [type |-> type, userId |-> userId, companyId |-> companyId,
     email |-> email, role |-> role, sub |-> sub]

Jwt(key, exp, payload) == [key |-> key, exp |-> exp, payload |-> payload]

\* Tokens signed with the service's own secret: the shapes the service issues
\* (access, refresh, password_reset, email_link, invite) and access-shaped
\* tokens with a missing field.
LocalTokens ==
    { Jwt(KLocal, FALSE, Payload("access", "u1", "c1", "a@x", "admin", None)),
      Jwt(KLocal, TRUE,  Payload("access", "u1", "c1", "a@x", "admin", None)),
      Jwt(KLocal, FALSE, Payload("access", None, "c1", "a@x", "admin", None)),
      Jwt(KLocal, FALSE, Payload("access", "u2", "", "b@x", "user", None)),
      Jwt(KLocal, FALSE, Payload("refresh", "u1", "c1", "a@x", "admin", None)),
      Jwt(KLocal, FALSE, Payload("password_reset", None, None, "a@x", None, None)),
      Jwt(KLocal, TRUE,  Payload("password_reset", None, None, "a@x", None, None)),
      Jwt(KLocal, FALSE, Payload("password_reset", None, None, "zz@x", None, None)),
      Jwt(KLocal, FALSE, Payload("email_link", None, None, "a@x", None, None)),
      Jwt(KLocal, FALSE, Payload("invite", None, "c1", "b@x", None, None)) }

\* Tokens signed by the identity provider.
SupabaseTokens ==
    { Jwt(KSupa, FALSE, Payload(None, None, None, "a@x", None, "s1")),
      Jwt(KSupa, FALSE, Payload(None, None, None, None, None, "s1")),
      Jwt(KSupa, FALSE, Payload(None, None, None, "a@x", None, "s2")),
      Jwt(KSupa, FALSE, Payload(None, None, None, "zz@x", None, "s2")),
      Jwt(KSupa, FALSE, Payload(None, None, None, "b@x", None, "s3")),
      Jwt(KSupa, FALSE, Payload(None, None, None, "a@x", None, None)),
      Jwt(KSupa, TRUE,  Payload(None, None, None, "a@x", None, "s1")) }

\* Tokens signed with a key the service does not know, and an unsigned
\* token (alg none, key None).
ForeignTokens ==
    { Jwt(KOther, FALSE, Payload("access", "u1", "c1", "a@x", "admin", "s1")),
      Jwt(None, FALSE, Payload("access", "u1", "c1", "a@x", "admin", "s1")) }

Tokens == LocalTokens \cup SupabaseTokens \cup ForeignTokens

\* The Authorization header: absent, or <<scheme prefix, rest>>.
Headers ==
    {Nil} \cup {<<"Bearer ", t>> : t \in Tokens}
          \cup {<<"Basic ", t>> : t \in {Jwt(KLocal, FALSE, Payload("access", "u1", "c1", "a@x", "admin", None))}}

NewPasswords == {"secret1", "short"}
PwLen(p) == IF p = "short" THEN 5 ELSE 7

----------------------------------------------------------------------------
(* The users table and the auth.service queries the middleware calls *)

User(id, email, company, role, sid) ==
    [id |-> id, email |-> email, company_id |-> company, role |-> role,
     active |-> TRUE, supabase_id |-> sid, pw |-> "old"]

OneOf(S) == IF S = {} THEN Nil ELSE Some(CHOOSE x \in S : TRUE)

getUserBySupabaseId(sid) == OneOf({u \in users : u.supabase_id = sid})

getUserByEmail(email) == OneOf({u \in users : u.email = email})

\* idx_users_supabase_id: two rows never hold the same non-null supabase_id
LinkConflict(id, sid) ==
    /\ \E u \in users : u.id = id
    /\ \E u \in users : u.id # id /\ u.supabase_id = sid

updateSupabaseId(id, sid) ==
    {IF u.id = id THEN [u EXCEPT !.supabase_id = sid] ELSE u : u \in users}

updatePasswordByEmail(email, pw) ==
    {IF u.email = email THEN [u EXCEPT !.pw = pw] ELSE u : u \in users}

----------------------------------------------------------------------------
(* auth.middleware: the identity cache *)

CacheKeys(c) == {c[i].key : i \in DOMAIN c}

CacheGet(c, k) == OneOf({c[i] : i \in {j \in DOMAIN c : c[j].key = k}})

CacheDelete(c, k) == SelectSeq(c, LAMBDA e : e.key # k)

\* Map.set: an existing key keeps its place, a new key goes last
CacheSet(c, k, e) ==
    IF k \in CacheKeys(c)
    THEN [i \in DOMAIN c |-> IF c[i].key = k THEN e ELSE c[i]]
    ELSE Append(c, e)

\* bug: every entry is taken for expired
Expired_Always(entry, t) == TRUE

Expired(entry, t) == t - entry.timestamp > CACHE_TTL_MS

\* bug: the lookup ignores the key and serves the oldest live entry
getCachedUser_AnyKey(c, k, t) ==
    IF c = <<>> THEN [cache |-> c, user |-> Nil]
    ELSE IF Expired(c[1], t) THEN [cache |-> CacheDelete(c, k), user |-> Nil]
    ELSE [cache |-> c, user |-> Some(c[1].user)]

\* the cache after getCachedUser(k) at time t, and what it returns
getCachedUser(c, k, t) ==
    LET e == CacheGet(c, k) IN
    IF e = Nil THEN [cache |-> c, user |-> Nil]
    ELSE IF Expired(e[1], t) THEN [cache |-> CacheDelete(c, k), user |-> Nil]
    ELSE [cache |-> c, user |-> Some(e[1].user)]

\* bug: nothing is evicted at capacity
setCachedUser_NoEvict(c, k, user, t) ==
    CacheSet(c, k, [key |-> k, user |-> user, timestamp |-> t])

setCachedUser(c, k, user, t) ==
    LET c1 == IF Len(c) >= CACHE_MAX_SIZE /\ Len(c) > 0
              THEN CacheDelete(c, c[1].key) ELSE c
    IN CacheSet(c1, k, [key |-> k, user |-> user, timestamp |-> t])

\* bug: every call clears the whole cache
clearUserCache_All(c, k) == <<>>

clearUserCache(c, k) == IF Truthy(k) THEN CacheDelete(c, k) ELSE <<>>

----------------------------------------------------------------------------
(* auth.middleware: the token verifier *)

\* jsonwebtoken's verify: the payload, or a thrown error; with no secret
\* given it accepts exactly the unsigned tokens
jwtVerify(token, secret) ==
    IF token.key = secret /\ ~token.exp
    THEN [threw |-> FALSE, val |-> Some(token.payload)]
    ELSE [threw |-> TRUE, val |-> Nil]

\* bug: the tenant claim is not required
verifyCustomToken_NoTenant(token) ==
    LET d == jwtVerify(token, config.jwtSecret) IN
    IF d.threw THEN [threw |-> FALSE, val |-> Nil]
    ELSE IF d.val[1].type = "access" /\ Truthy(d.val[1].userId)
         THEN [threw |-> FALSE, val |-> d.val]
         ELSE [threw |-> FALSE, val |-> Nil]

\* bug: the type of the token is not checked
verifyCustomToken_AnyType(token) ==
    LET d == jwtVerify(token, config.jwtSecret) IN
    IF d.threw THEN [threw |-> FALSE, val |-> Nil]
    ELSE IF Truthy(d.val[1].userId) /\ Truthy(d.val[1].companyId)
         THEN [threw |-> FALSE, val |-> d.val]
         ELSE [threw |-> FALSE, val |-> Nil]

verifyCustomToken(token) ==
    LET d == jwtVerify(token, config.jwtSecret) IN
    IF d.threw THEN [threw |-> FALSE, val |-> Nil]
    ELSE IF d.val[1].type = "access" /\ Truthy(d.val[1].userId)
            /\ Truthy(d.val[1].companyId)
         THEN [threw |-> FALSE, val |-> d.val]
         ELSE [threw |-> FALSE, val |-> Nil]

\* bug: verification is attempted although no secret is configured
verifySupabaseToken_NoConfigCheck(token) ==
    LET d == jwtVerify(token, config.supabaseJwtSecret) IN
    IF d.threw THEN [threw |-> FALSE, val |-> Nil]
    ELSE IF Truthy(d.val[1].sub) THEN [threw |-> FALSE, val |-> d.val]
    ELSE [threw |-> FALSE, val |-> Nil]

verifySupabaseToken(token) ==
    IF ~Truthy(config.supabaseJwtSecret) THEN [threw |-> FALSE, val |-> Nil]
    ELSE LET d == jwtVerify(token, config.supabaseJwtSecret) IN
         IF d.threw THEN [threw |-> FALSE, val |-> Nil]
         ELSE IF Truthy(d.val[1].sub) THEN [threw |-> FALSE, val |-> d.val]
         ELSE [threw |-> FALSE, val |-> Nil]

----------------------------------------------------------------------------
(* auth.middleware: authenticate, with resolveSupabaseUser inlined *)

IdleReq ==
    [op |-> None, pc |-> "idle", hdr |-> Nil, tok |-> Nil, newPw |-> None,
     sub |-> None, email |-> None, user |-> Nil,
     reqUser |-> Nil, status |-> 0, body |-> None, nexts |-> 0,
     reads |-> 0, writes |-> 0, cacheOps |-> 0, checks |-> <<>>,
     thrownBy |-> None, match |-> None, entryAge |-> -1, guard |-> Nil,
     route |-> Nil]

\* A finished request is read by its caller before another one finishes:
\* the record of a finished request is an observation, not program state.
CanFinish(p) ==
    \A q \in Procs \ {p} : areq[q].pc \notin {"done", "thrown", "failed"}

\* a new request takes the lowest free slot
CanStart(p) ==
    /\ areq[p].pc = "idle"
    /\ started < MaxReq
    /\ p = "p1" \/ areq["p1"].pc # "idle"

\* bug: any Authorization header is taken for a bearer token
HasBearer_NoPrefixCheck(hdr) == hdr # Nil

HasBearer(hdr) == hdr # Nil /\ hdr[1] = "Bearer "

BearerToken(hdr) == hdr[2]

\* bug: the tenant is read from the wrong claim
ClaimsPrincipal_WrongTenant(c) ==
    [userId |-> c.userId, email |-> c.email, companyId |-> c.userId,
     role |-> c.role]

ClaimsPrincipal(c) ==
    [userId |-> c.userId, email |-> c.email, companyId |-> c.companyId,
     role |-> c.role]

UserPrincipal(u) ==
    [userId |-> u.id, email |-> u.email, companyId |-> u.company_id,
     role |-> u.role]

\* res.status(s).json({error: b})
Respond(r, s, b) == [r EXCEPT !.pc = "done", !.status = s, !.body = b]

\* req.user = principal; next()
Proceed(r, principal) ==
    [r EXCEPT !.pc = "done", !.reqUser = Some(principal), !.nexts = @ + 1]

Throw(r, by) == [r EXCEPT !.pc = "thrown", !.thrownBy = by]

\* bug: the optional variant rejects like authenticate
ProceedNull_Rejects(r) == Respond(r, 401, "Invalid or expired token")

\* req.user = null; next()
ProceedNull(r) == [r EXCEPT !.pc = "done", !.reqUser = Nil, !.nexts = @ + 1]

\* both checks failed: the last statement of authenticate
RejectInvalid(r) == Respond(r, 401, "Invalid or expired token")

\* bug: a valid external token without a local account gets its own answer
NoUser_Distinct(r) ==
    IF r.op = "optional" THEN ProceedNull(r)
    ELSE Respond(r, 401, "User not found")

\* resolveSupabaseUser returned no user: authenticate logs and falls through
\* to its last statement, optionalAuthenticate proceeds without a principal
NoUser(r) ==
    IF r.op = "optional" THEN ProceedNull(r) ELSE RejectInvalid(r)

\* the age of the cache entry of subject k at time t, -1 when there is none
EntryAge(c, k, t) ==
    LET e == CacheGet(c, k) IN IF e = Nil THEN -1 ELSE t - e[1].timestamp

ResolveOps == {"authenticate", "optional"}

\* the link step of resolveSupabaseUser is taken for a user found by email
\* that carries no supabase_id
\* bug: the link is never persisted
NeedsLink_Never(user) == FALSE

NeedsLink(user) == user # Nil /\ ~Truthy(user[1].supabase_id)

\* history: the user that resolve(sub, email) is bound to return when the
\* subject is new or already linked to the user carrying that email
LinkTarget(sub, email) ==
    LET m == {u \in users : u.email = email /\ u.supabase_id \in {None, sub}} IN
    IF /\ m # {}
       /\ \A u \in users : u.supabase_id = sub => u \in m
       /\ \A i \in DOMAIN userCache :
             userCache[i].key = sub => userCache[i].user.id \in {u.id : u \in m}
    THEN (CHOOSE u \in m : TRUE).id
    ELSE None

\* authenticate up to its first await
authenticate(p, hdr) ==
    /\ CanStart(p)
    /\ started' = started + 1
    /\ UNCHANGED <<config, users, now, linkLog, stVars>>
    /\ LET r0 == [IdleReq EXCEPT !.op = "authenticate", !.hdr = hdr] IN
       IF ~HasBearer(hdr)
       THEN /\ CanFinish(p)
            /\ areq' = [areq EXCEPT ![p] =
                           Respond(r0, 401, "No authorization token provided")]
            /\ UNCHANGED userCache
       ELSE
       LET token == BearerToken(hdr)
           custom == verifyCustomToken(token)
           r1 == [r0 EXCEPT !.checks = <<"custom">>]
       IN
       IF custom.threw
       THEN /\ CanFinish(p)
            /\ areq' = [areq EXCEPT ![p] = Throw(r1, "verify")]
            /\ UNCHANGED userCache
       ELSE IF custom.val # Nil
       THEN /\ CanFinish(p)
            /\ areq' = [areq EXCEPT ![p] =
                           Proceed(r1, ClaimsPrincipal(custom.val[1]))]
            /\ UNCHANGED userCache
       ELSE
       LET supa == verifySupabaseToken(token)
           r2 == [r1 EXCEPT !.checks = <<"custom", "supabase">>]
       IN
       IF supa.val = Nil
       THEN /\ CanFinish(p)
            /\ areq' = [areq EXCEPT ![p] = RejectInvalid(r2)]
            /\ UNCHANGED userCache
       ELSE
       LET got == getCachedUser(userCache, supa.val[1].sub, now)
           r3 == [r2 EXCEPT !.checks = <<"custom", "supabase", "resolve">>,
                            !.sub = supa.val[1].sub,
                            !.email = supa.val[1].email,
                            !.cacheOps = IF got.cache # userCache THEN 1 ELSE 0,
                            !.match = LinkTarget(supa.val[1].sub, supa.val[1].email),
                            !.entryAge = EntryAge(userCache, supa.val[1].sub, now)]
       IN
       /\ userCache' = got.cache
       /\ IF got.user # Nil
          THEN /\ CanFinish(p)
               /\ areq' = [areq EXCEPT ![p] =
                     Proceed([r3 EXCEPT !.user = got.user],
                             UserPrincipal(got.user[1]))]
          ELSE areq' = [areq EXCEPT ![p] = [r3 EXCEPT !.pc = "bySub"]]

\* optionalAuthenticate up to its first await
optionalAuthenticate(p, hdr) ==
    /\ CanStart(p)
    /\ started' = started + 1
    /\ UNCHANGED <<config, users, now, linkLog, stVars>>
    /\ LET r0 == [IdleReq EXCEPT !.op = "optional", !.hdr = hdr] IN
       IF ~HasBearer(hdr)
       THEN /\ CanFinish(p)
            /\ areq' = [areq EXCEPT ![p] = ProceedNull(r0)]
            /\ UNCHANGED userCache
       ELSE
       LET token == BearerToken(hdr)
           custom == verifyCustomToken(token)
           r1 == [r0 EXCEPT !.checks = <<"custom">>]
       IN
       IF custom.threw
       THEN /\ CanFinish(p)
            /\ areq' = [areq EXCEPT ![p] = Throw(r1, "verify")]
            /\ UNCHANGED userCache
       ELSE IF custom.val # Nil
       THEN /\ CanFinish(p)
            /\ areq' = [areq EXCEPT ![p] =
                           Proceed(r1, ClaimsPrincipal(custom.val[1]))]
            /\ UNCHANGED userCache
       ELSE
       LET supa == verifySupabaseToken(token)
           r2 == [r1 EXCEPT !.checks = <<"custom", "supabase">>]
       IN
       IF supa.val = Nil
       THEN /\ CanFinish(p)
            /\ areq' = [areq EXCEPT ![p] = ProceedNull(r2)]
            /\ UNCHANGED userCache
       ELSE
       LET got == getCachedUser(userCache, supa.val[1].sub, now)
           r3 == [r2 EXCEPT !.checks = <<"custom", "supabase", "resolve">>,
                            !.sub = supa.val[1].sub,
                            !.email = supa.val[1].email,
                            !.cacheOps = IF got.cache # userCache THEN 1 ELSE 0,
                            !.match = LinkTarget(supa.val[1].sub, supa.val[1].email),
                            !.entryAge = EntryAge(userCache, supa.val[1].sub, now)]
       IN
       /\ userCache' = got.cache
       /\ IF got.user # Nil
          THEN /\ CanFinish(p)
               /\ areq' = [areq EXCEPT ![p] =
                     Proceed([r3 EXCEPT !.user = got.user],
                             UserPrincipal(got.user[1]))]
          ELSE areq' = [areq EXCEPT ![p] = [r3 EXCEPT !.pc = "bySub"]]

\* await authService.getUserBySupabaseId(supabaseUserId)
AuthBySupabaseId(p) ==
    /\ areq[p].op \in ResolveOps /\ areq[p].pc = "bySub"
    /\ UNCHANGED <<config, users, userCache, now, linkLog, started, stVars>>
    /\ LET user == getUserBySupabaseId(areq[p].sub)
           r == [areq[p] EXCEPT !.user = user, !.reads = @ + 1]
       IN
       IF user = Nil /\ Truthy(r.email)
       THEN areq' = [areq EXCEPT ![p] = [r EXCEPT !.pc = "byEmail"]]
       ELSE IF user # Nil
       THEN areq' = [areq EXCEPT ![p] = [r EXCEPT !.pc = "cacheSet"]]
       ELSE /\ CanFinish(p)
            /\ areq' = [areq EXCEPT ![p] = NoUser(r)]

\* await authService.getUserByEmail(email)
AuthByEmail(p) ==
    /\ areq[p].op \in ResolveOps /\ areq[p].pc = "byEmail"
    /\ UNCHANGED <<config, users, userCache, now, linkLog, started, stVars>>
    /\ LET user == getUserByEmail(areq[p].email)
           r == [areq[p] EXCEPT !.user = user, !.reads = @ + 1]
       IN
       IF NeedsLink(user)
       THEN areq' = [areq EXCEPT ![p] = [r EXCEPT !.pc = "link"]]
       ELSE IF user # Nil
       THEN areq' = [areq EXCEPT ![p] = [r EXCEPT !.pc = "cacheSet"]]
       ELSE /\ CanFinish(p)
            /\ areq' = [areq EXCEPT ![p] = NoUser(r)]

\* await authService.updateSupabaseId(user.id, supabaseUserId);
\* user.supabase_id = supabaseUserId
AuthLink(p) ==
    /\ areq[p].op \in ResolveOps /\ areq[p].pc = "link"
    /\ UNCHANGED <<config, userCache, now, started, stVars>>
    /\ LET r == areq[p] IN
       IF LinkConflict(r.user[1].id, r.sub)
       THEN /\ CanFinish(p)
            /\ areq' = [areq EXCEPT ![p] = Throw(r, "store")]
            /\ UNCHANGED <<users, linkLog>>
       ELSE /\ users' = updateSupabaseId(r.user[1].id, r.sub)
            /\ linkLog' = linkLog \cup {<<r.user[1].id, r.sub>>}
            /\ areq' = [areq EXCEPT ![p] =
                  [r EXCEPT !.pc = "cacheSet", !.writes = @ + 1,
                            !.user = Some([r.user[1] EXCEPT !.supabase_id = r.sub])]]

\* setCachedUser(supabaseUserId, user); return user; then authenticate
\* attaches the principal and calls next()
AuthCacheSet(p) ==
    /\ areq[p].op \in ResolveOps /\ areq[p].pc = "cacheSet"
    /\ CanFinish(p)
    /\ UNCHANGED <<config, users, now, linkLog, started, stVars>>
    /\ userCache' = setCachedUser(userCache, areq[p].sub, areq[p].user[1], now)
    /\ areq' = [areq EXCEPT ![p] =
          Proceed([areq[p] EXCEPT !.cacheOps = @ + 1],
                  UserPrincipal(areq[p].user[1]))]

\* the store is unavailable: the awaited query rejects, and neither
\* resolveSupabaseUser nor authenticate catches it
AuthStoreFault(p) ==
    /\ areq[p].op \in ResolveOps /\ areq[p].pc \in {"bySub", "byEmail", "link"}
    /\ CanFinish(p)
    /\ UNCHANGED <<config, users, userCache, now, linkLog, started, stVars>>
    /\ areq' = [areq EXCEPT ![p] = Throw(areq[p], "store")]

\* a collaborator calls the exported clearUserCache(supabaseUserId), or
\* clearUserCache() when k is None
Invalidate(p, k) ==
    /\ CanStart(p) /\ CanFinish(p)
    /\ started' = started + 1
    /\ userCache' = clearUserCache(userCache, k)
    /\ areq' = [areq EXCEPT ![p] =
          [IdleReq EXCEPT !.op = "invalidate", !.pc = "done", !.sub = k,
                          !.cacheOps = IF userCache' # userCache THEN 1 ELSE 0]]
    /\ UNCHANGED <<config, users, now, linkLog, stVars>>

\* the rejection of an async middleware reaches the application's error
\* handler when the framework forwards it (Express 5 does, Express 4 leaves
\* the request unanswered): res.status(500).json({error}), where error is
\* "Internal server error" in production and err.message otherwise
ErrorHandler(p, body) ==
    /\ areq[p].pc = "thrown"
    /\ areq' = [areq EXCEPT ![p] =
          [@ EXCEPT !.pc = "failed", !.status = 500, !.body = body]]
    /\ UNCHANGED <<config, users, userCache, now, linkLog, started, stVars>>

ErrorBodies == {"Internal server error", "store unavailable"}

\* the caller has read the outcome; the slot takes the next request
Return(p) ==
    /\ areq[p].pc \in {"done", "thrown", "failed"}
    /\ areq' = [areq EXCEPT ![p] = IdleReq]
    /\ UNCHANGED <<config, users, userCache, now, linkLog, started, stVars>>

\* time passes
Tick ==
    /\ now < MaxTime
    /\ now' = now + 1
    /\ UNCHANGED <<config, users, userCache, linkLog, areq, started, stVars>>

----------------------------------------------------------------------------
(* auth.routes: POST /auth/reset-password *)

\* the handler up to its first await: body checks and jwt.verify
resetPassword(p, tok, newPw) ==
    /\ CanStart(p)
    /\ started' = started + 1
    /\ UNCHANGED <<config, users, userCache, now, linkLog, stVars>>
    /\ LET r0 == [IdleReq EXCEPT !.op = "reset", !.tok = tok, !.newPw = newPw] IN
       IF tok = Nil \/ ~Truthy(newPw)
       THEN /\ CanFinish(p)
            /\ areq' = [areq EXCEPT ![p] =
                  Respond(r0, 400, "Token and new password are required")]
       ELSE IF PwLen(newPw) < 6
       THEN /\ CanFinish(p)
            /\ areq' = [areq EXCEPT ![p] =
                  Respond(r0, 400, "Password must be at least 6 characters")]
       ELSE
       LET d == jwtVerify(tok[1], config.jwtSecret) IN
       IF d.threw \/ d.val[1].type # "password_reset" \/ ~Truthy(d.val[1].email)
       THEN /\ CanFinish(p)
            /\ areq' = [areq EXCEPT ![p] =
                  Respond(r0, 400, "Invalid or expired reset token")]
       ELSE areq' = [areq EXCEPT ![p] =
                  [r0 EXCEPT !.pc = "rpFind", !.email = d.val[1].email]]

\* await authService.getUserByEmail(email)
ResetFindUser(p) ==
    /\ areq[p].op = "reset" /\ areq[p].pc = "rpFind"
    /\ UNCHANGED <<config, users, userCache, now, linkLog, started, stVars>>
    /\ LET user == getUserByEmail(areq[p].email)
           r == [areq[p] EXCEPT !.user = user, !.reads = @ + 1]
       IN
       IF user = Nil
       THEN /\ CanFinish(p)
            /\ areq' = [areq EXCEPT ![p] =
                  Respond(r, 400, "Invalid or expired reset token")]
       ELSE areq' = [areq EXCEPT ![p] = [r EXCEPT !.pc = "rpUpdate"]]

\* await authService.updatePasswordByEmail(email, newPassword)
ResetUpdatePassword(p) ==
    /\ areq[p].op = "reset" /\ areq[p].pc = "rpUpdate"
    /\ UNCHANGED <<config, userCache, now, linkLog, started, stVars>>
    /\ users' = updatePasswordByEmail(areq[p].email, areq[p].newPw)
    /\ areq' = [areq EXCEPT ![p] = [@ EXCEPT !.pc = "rpClear", !.writes = @ + 1]]

\* clearUserCache(user.id); res.json({message: "Password reset successful"})
ResetClearCache(p) ==
    /\ areq[p].op = "reset" /\ areq[p].pc = "rpClear"
    /\ CanFinish(p)
    /\ UNCHANGED <<config, users, now, linkLog, started, stVars>>
    /\ userCache' = clearUserCache(userCache, areq[p].user[1].id)
    /\ areq' = [areq EXCEPT ![p] =
          Respond([@ EXCEPT !.cacheOps = IF userCache' # userCache THEN 1 ELSE 0],
                  200, "Password reset successful")]

\* the store is unavailable: the handler's catch answers 500
ResetStoreFault(p) ==
    /\ areq[p].op = "reset" /\ areq[p].pc \in {"rpFind", "rpUpdate"}
    /\ CanFinish(p)
    /\ UNCHANGED <<config, users, userCache, now, linkLog, started, stVars>>
    /\ areq' = [areq EXCEPT ![p] = Respond(@, 500, "store unavailable")]

ResetTokens == {Nil} \cup {Some(t) : t \in LocalTokens \cup ForeignTokens}

----------------------------------------------------------------------------
(* auth.middleware: requireCompanyMatch and requireRole *)

TenantIds == {None, "", "c1", "c2"}
Roles == {"admin", "user"}

\* req.user as a guard finds it
GuardPrincipals ==
    {Nil} \cup {Some([userId |-> "u1", email |-> "a@x", companyId |-> "c1", role |-> r]) :
                    r \in Roles \cup {None}}

\* the argument of requireRole: one role name, or an array of names
RoleArgs ==
    {[isArray |-> FALSE, one |-> r, many |-> <<>>] : r \in Roles}
      \cup {[isArray |-> TRUE, one |-> None, many |-> m] :
                m \in {<<>>, <<"admin">>, <<"user">>, <<"admin", "user">>}}

NoRoleArg == [isArray |-> FALSE, one |-> None, many |-> <<>>]

\* a || b
JsOr(a, b) == IF Truthy(a) THEN a ELSE b

\* bug: the query is looked at first
requestedCompanyId_QueryFirst(prm, bdy, qry) == JsOr(qry, JsOr(bdy, prm))

\* req.params[paramName] || req.body?.[paramName] || req.query?.[paramName]
requestedCompanyId(prm, bdy, qry) == JsOr(prm, JsOr(bdy, qry))

\* what the middleware returned by requireCompanyMatch(paramName) does:
\* the status it answers, or 0 and next()
companyMatchOutcome(principal, prm, bdy, qry) ==
    IF principal = Nil
    THEN [status |-> 401, body |-> "Authentication required", next |-> FALSE]
    ELSE LET wanted == requestedCompanyId(prm, bdy, qry) IN
         IF Truthy(wanted) /\ wanted # principal[1].companyId
         THEN [status |-> 403, body |-> "Access denied: company mismatch",
               next |-> FALSE]
         ELSE [status |-> 0, body |-> None, next |-> TRUE]

\* bug: a single role name is not wrapped into an array
allowedRoles_Unwrapped(arg) == arg.many

\* Array.isArray(roles) ? roles : [roles]
allowedRoles(arg) == IF arg.isArray THEN arg.many ELSE <<arg.one>>

\* allowedRoles.includes(role)
Includes(names, role) == \E i \in DOMAIN names : names[i] = role

\* what the middleware returned by requireRole(roles) does
roleOutcome(principal, arg) ==
    IF principal = Nil
    THEN [status |-> 401, body |-> "Authentication required", next |-> FALSE]
    ELSE IF ~Includes(allowedRoles(arg), principal[1].role)
    THEN [status |-> 403, body |-> "Insufficient permissions", next |-> FALSE]
    ELSE [status |-> 0, body |-> None, next |-> TRUE]

\* the request record after a guard ran
Guarded(op, principal, g, out) ==
    [IdleReq EXCEPT !.op = op, !.pc = "done", !.reqUser = principal,
                    !.guard = Some(g), !.status = out.status,
                    !.body = out.body, !.nexts = IF out.next THEN 1 ELSE 0]

requireCompanyMatch(p, principal, prm, bdy, qry) ==
    /\ CanStart(p) /\ CanFinish(p)
    /\ started' = started + 1
    /\ areq' = [areq EXCEPT ![p] =
          Guarded("requireCompanyMatch", principal,
                  [params |-> prm, body |-> bdy, query |-> qry, roles |-> NoRoleArg],
                  companyMatchOutcome(principal, prm, bdy, qry))]
    /\ UNCHANGED <<config, users, userCache, now, linkLog, stVars>>

requireRole(p, principal, arg) ==
    /\ CanStart(p) /\ CanFinish(p)
    /\ started' = started + 1
    /\ areq' = [areq EXCEPT ![p] =
          Guarded("requireRole", principal,
                  [params |-> None, body |-> None, query |-> None, roles |-> arg],
                  roleOutcome(principal, arg))]
    /\ UNCHANGED <<config, users, userCache, now, linkLog, stVars>>

NextGuard ==
    \/ \E p \in Procs, pr \in GuardPrincipals, prm, bdy, qry \in TenantIds :
           requireCompanyMatch(p, pr, prm, bdy, qry)
    \/ \E p \in Procs, pr \in GuardPrincipals, arg \in RoleArgs :
           requireRole(p, pr, arg)
    \/ \E p \in Procs : Return(p)

----------------------------------------------------------------------------
(* The two subsystems *)

InitUsers ==
    { {User("u1", "a@x", "c1", "admin", s1), User("u2", "b@x", "c2", "user", s2)} :
        s1 \in {None, "s1"}, s2 \in {None} }

InitAuth ==
    /\ config \in {[jwtSecret |-> KLocal, supabaseJwtSecret |-> k] : k \in {KSupa, None}}
    /\ users \in InitUsers
    /\ userCache = <<>>
    /\ now = 0
    /\ linkLog = {}
    /\ areq = [p \in Procs |-> IdleReq]

NextAuth ==
    \/ \E p \in Procs, hdr \in Headers : authenticate(p, hdr)
    \/ \E p \in Procs, hdr \in Headers : optionalAuthenticate(p, hdr)
    \/ \E p \in Procs, k \in Subs \cup {None} : Invalidate(p, k)
    \/ \E p \in Procs : AuthBySupabaseId(p)
    \/ \E p \in Procs : AuthByEmail(p)
    \/ \E p \in Procs : AuthLink(p)
    \/ \E p \in Procs : AuthCacheSet(p)
    \/ \E p \in Procs : AuthStoreFault(p)
    \/ \E p \in Procs, tok \in ResetTokens, pw \in NewPasswords \cup {None} :
           resetPassword(p, tok, pw)
    \/ \E p \in Procs : ResetFindUser(p)
    \/ \E p \in Procs : ResetUpdatePassword(p)
    \/ \E p \in Procs : ResetClearCache(p)
    \/ \E p \in Procs : ResetStoreFault(p)
    \/ \E p \in Procs, b \in ErrorBodies : ErrorHandler(p, b)
    \/ \E p \in Procs : Return(p)
    \/ Tick

----------------------------------------------------------------------------
(* services/servicetrade: the per-company session client.  The remote is   *)
(* not modelled: every response is any status the ServiceTrade API can     *)
(* send, and a fetch may also reject (network failure).                    *)

Companies == {"c1", "c2"}

NoTok == 0              \* no authToken (undefined / null)

\* credentials passed by the caller: none, complete, or lacking a username
Credentials ==
    {Nil, Some([username |-> "user", password |-> "pw"]),
          Some([username |-> "", password |-> "pw"])}

\* bug: only the password is required
HasLogin_PasswordOnly(creds) == creds # Nil /\ Truthy(creds[1].password)

HasLogin(creds) ==
    creds # Nil /\ Truthy(creds[1].username) /\ Truthy(creds[1].password)

IdleCall ==
    [op |-> None, pc |-> "idle", company |-> None, creds |-> Nil,
     tok |-> NoTok, phase |-> 0, first |-> Nil,
     retNull |-> FALSE, retTok |-> NoTok, res |-> Nil,
     nLogin |-> 0, nGet |-> 0, nProxy |-> 0, log |-> <<>>, http |-> 0]

CallCanFinish(p) == \A q \in Procs \ {p} : calls[q].pc \notin {"done", "thrown"}

\* a new call takes the lowest free slot
CallCanStart(p) ==
    /\ calls[p].pc = "idle"
    /\ started < MaxReq
    /\ p = "p1" \/ calls["p1"].pc # "idle"

\* POST /auth answers
PostResponses ==
    {[status |-> 200, grant |-> TRUE], [status |-> 403, grant |-> FALSE],
     [status |-> 400, grant |-> FALSE], [status |-> 500, grant |-> FALSE]}

\* GET /auth answers: data.authenticated and whether data.authToken is sent
GetResponses ==
    {[status |-> 200, authenticated |-> TRUE, echo |-> TRUE],
     [status |-> 200, authenticated |-> TRUE, echo |-> FALSE],
     [status |-> 401, authenticated |-> FALSE, echo |-> FALSE],
     [status |-> 404, authenticated |-> FALSE, echo |-> FALSE],
     [status |-> 500, authenticated |-> FALSE, echo |-> FALSE]}

CallStatuses == {200, 401, 404, 500}
DeleteStatuses == {204, 500}

\* a body is <<text, number of the proxied call it answers>>
Synthetic ==
    [ok |-> FALSE, status |-> 401,
     body |-> <<"ServiceTrade not authenticated", 0>>]

\* {ok: res.ok, status: res.status, data, messages}
Result(resp) ==
    [ok |-> resp.status \in 200..299, status |-> resp.status, body |-> resp.body]

\* history: a fetch, the token it carried or was granted, its status, and
\* the token its caller got out of the answer
LoggedGot(r, kind, tok, status, got) ==
    [r EXCEPT !.log = Append(@, [k |-> kind, tok |-> tok, status |-> status,
                                 got |-> got])]

Logged(r, kind, tok, status) ==
    LoggedGot(r, kind, tok, status, IF kind = "POST" THEN tok ELSE NoTok)

ReturnTok(r, t) == [r EXCEPT !.pc = "done", !.retTok = t, !.retNull = (t = NoTok)]

\* bug: a failed re-login answers "not authenticated" instead of the
\* response already received
afterEnsure_SyntheticOnRetry(r, token) ==
    IF r.op = "ensureSession" THEN ReturnTok(r, token)
    ELSE IF token = NoTok
    THEN [r EXCEPT !.pc = "done", !.res = Some(Synthetic)]
    ELSE [r EXCEPT !.pc = "call", !.tok = token, !.nProxy = @ + 1]

\* bug: the proxied call is made whether or not a session was obtained
afterEnsure_AlwaysCalls(r, token) ==
    IF r.op = "ensureSession" THEN ReturnTok(r, token)
    ELSE [r EXCEPT !.pc = "call", !.tok = token, !.nProxy = @ + 1]

\* ensureSession has its token (or none): what its caller does next
afterEnsure(r, token) ==
    IF r.op = "ensureSession" THEN ReturnTok(r, token)
    ELSE IF r.phase = 1
    THEN IF token = NoTok
         THEN [r EXCEPT !.pc = "done", !.res = Some(Synthetic)]
         ELSE [r EXCEPT !.pc = "call", !.tok = token, !.nProxy = @ + 1]
    ELSE IF token # NoTok
         THEN [r EXCEPT !.pc = "call", !.tok = token, !.nProxy = @ + 1]
         ELSE [r EXCEPT !.pc = "done", !.res = Some(Result(r.first[1]))]

\* login returned result (a token, or null)
afterLogin(r, token) ==
    IF r.op = "login" THEN ReturnTok(r, token)
    ELSE IF r.op = "credentials"
    THEN [ReturnTok(r, token) EXCEPT !.http = IF token = NoTok THEN 403 ELSE 200]
    ELSE afterEnsure(r, token)

\* getSession returned a session carrying authToken, or null
afterGetSession(r, isNull, authToken) ==
    IF r.op = "getSession"
    THEN [r EXCEPT !.pc = "done", !.retNull = isNull, !.retTok = authToken]
    ELSE IF ~isNull THEN afterEnsure(r, authToken)
    ELSE IF ~HasLogin(r.creds) THEN afterEnsure(r, NoTok)
    ELSE [r EXCEPT !.pc = "post", !.nLogin = @ + 1]

\* bug: the cache is read under another tenant's key
beginGetSession_OtherTenant(r, tc) ==
    LET other == CHOOSE c \in Companies : c # r.company IN
    IF tc[other] = NoTok THEN afterGetSession(r, TRUE, NoTok)
    ELSE [r EXCEPT !.pc = "get", !.tok = tc[other], !.nGet = @ + 1]

\* getSession up to its fetch: the cached token goes into the Cookie
beginGetSession(r, tc) ==
    IF tc[r.company] = NoTok THEN afterGetSession(r, TRUE, NoTok)
    ELSE [r EXCEPT !.pc = "get", !.tok = tc[r.company], !.nGet = @ + 1]

NewCall(op, company, creds) ==
    [IdleCall EXCEPT !.op = op, !.company = company, !.creds = creds,
                     !.phase = 1]

\* login(companyId, username, password) up to its fetch
login(p, company, creds) ==
    /\ CallCanStart(p) /\ creds # Nil
    /\ started' = started + 1
    /\ LET r == NewCall("login", company, creds) IN
       IF ~HasLogin(creds)
       THEN /\ CallCanFinish(p)
            /\ calls' = [calls EXCEPT ![p] = ReturnTok(r, NoTok)]
       ELSE calls' = [calls EXCEPT ![p] = [r EXCEPT !.pc = "post", !.nLogin = 1]]
    /\ UNCHANGED <<tokenCache, nextTok, authVars>>

\* getSession(companyId), ensureSession(companyId, credentials) and
\* request(companyId, method, path, options, credentials) all begin with
\* getSession's read of the cache
getSession(p, op, company, creds) ==
    /\ CallCanStart(p)
    /\ op = "getSession" => creds = Nil
    /\ started' = started + 1
    /\ LET r == beginGetSession(NewCall(op, company, creds), tokenCache) IN
       /\ r.pc = "done" => CallCanFinish(p)
       /\ calls' = [calls EXCEPT ![p] = r]
    /\ UNCHANGED <<tokenCache, nextTok, authVars>>

\* logout(companyId) up to its fetch
logout(p, company) ==
    /\ CallCanStart(p)
    /\ started' = started + 1
    /\ LET r == NewCall("logout", company, Nil) IN
       IF tokenCache[company] = NoTok
       THEN /\ CallCanFinish(p)
            /\ calls' = [calls EXCEPT ![p] = [r EXCEPT !.pc = "done"]]
       ELSE calls' = [calls EXCEPT ![p] =
                [r EXCEPT !.pc = "delete", !.tok = tokenCache[company]]]
    /\ UNCHANGED <<tokenCache, nextTok, authVars>>

\* bug: the token is cached under another tenant's key
cachedAfterLogin_WrongTenant(tc, company, token) ==
    IF token # NoTok
    THEN [tc EXCEPT ![CHOOSE c \in Companies : c # company] = token]
    ELSE tc

\* tokenCache.set(String(companyId), {authToken}) on a granted login
cachedAfterLogin(tc, company, token) ==
    IF token # NoTok THEN [tc EXCEPT ![company] = token] ELSE tc

\* login's POST /auth resolved: the rest of login, and of its caller up to
\* the next fetch
PostResponse(p, resp) ==
    /\ calls[p].pc = "post"
    /\ resp.grant => nextTok <= MaxTok
    /\ LET r0 == calls[p]
           token == IF resp.grant THEN nextTok ELSE NoTok
           r == afterLogin(Logged(r0, "POST", token, resp.status), token)
       IN
       /\ r.pc = "done" => CallCanFinish(p)
       /\ calls' = [calls EXCEPT ![p] = r]
       /\ tokenCache' = cachedAfterLogin(tokenCache, r0.company, token)
       /\ nextTok' = IF resp.grant THEN nextTok + 1 ELSE nextTok
    /\ UNCHANGED <<started, authVars>>

\* which GET /auth answers make getSession drop the cached token
SessionGone(resp) == resp.status = 404

\* getSession's GET /auth resolved
GetResponse(p, resp) ==
    /\ calls[p].pc = "get"
    /\ LET live == resp.status = 200 /\ resp.authenticated
           authToken == IF live /\ resp.echo THEN calls[p].tok ELSE NoTok
           r0 == LoggedGot(calls[p], "GET", calls[p].tok, resp.status, authToken)
           r == afterGetSession(r0, ~live, authToken)
       IN
       /\ r.pc = "done" => CallCanFinish(p)
       /\ calls' = [calls EXCEPT ![p] = r]
       /\ tokenCache' = IF ~live /\ SessionGone(resp)
                        THEN [tokenCache EXCEPT ![r0.company] = NoTok]
                        ELSE tokenCache
    /\ UNCHANGED <<nextTok, started, authVars>>

\* bug: only a 404 is taken for a stale session
Stale_Only404(r, status) == status = 404 /\ r.creds # Nil

\* the answer to a proxied call that request takes for a stale session
Stale(r, status) == status \in {401, 404} /\ r.creds # Nil

\* bug: every stale answer is retried, not only the first
ShouldRetry_EveryTime(r, status) == Stale(r, status)

\* request retries once: only the first proxied call is retried
ShouldRetry(r, status) == r.phase = 1 /\ Stale(r, status)

\* request's proxied fetch resolved
CallResponse(p, status) ==
    /\ calls[p].pc = "call"
    /\ LET r0 == Logged(calls[p], "CALL", calls[p].tok, status)
           resp == [status |-> status, body |-> <<"response", r0.nProxy>>]
           retry == ShouldRetry(r0, status)
           tc == IF retry THEN [tokenCache EXCEPT ![r0.company] = NoTok]
                 ELSE tokenCache
           r == IF retry
                THEN beginGetSession(
                         [r0 EXCEPT !.phase = 2, !.first = Some(resp)], tc)
                ELSE [r0 EXCEPT !.pc = "done", !.res = Some(Result(resp))]
       IN
       /\ r.pc = "done" => CallCanFinish(p)
       /\ calls' = [calls EXCEPT ![p] = r]
       /\ tokenCache' = tc
    /\ UNCHANGED <<nextTok, started, authVars>>

\* logout's DELETE /auth resolved, with whatever status
DeleteResponse(p, status) ==
    /\ calls[p].pc = "delete"
    /\ CallCanFinish(p)
    /\ calls' = [calls EXCEPT ![p] =
          [Logged(@, "DELETE", @.tok, status) EXCEPT !.pc = "done"]]
    /\ tokenCache' = [tokenCache EXCEPT ![calls[p].company] = NoTok]
    /\ UNCHANGED <<nextTok, started, authVars>>

\* the fetch rejects: nothing in the module catches it
NetworkError(p) ==
    /\ calls[p].pc \in {"post", "get", "call", "delete"}
    /\ calls[p].op # "credentials"
    /\ CallCanFinish(p)
    /\ calls' = [calls EXCEPT ![p] =
          [Logged(@, "ERROR", @.tok, 0) EXCEPT !.pc = "thrown"]]
    /\ UNCHANGED <<tokenCache, nextTok, started, authVars>>

\* the caller has read the outcome; the slot takes the next call
CallReturn(p) ==
    /\ calls[p].pc \in {"done", "thrown"}
    /\ calls' = [calls EXCEPT ![p] = IdleCall]
    /\ UNCHANGED <<tokenCache, nextTok, started, authVars>>

InitST ==
    /\ tokenCache = [c \in Companies |-> NoTok]
    /\ nextTok = 1
    /\ started = 0
    /\ calls = [p \in Procs |-> IdleCall]
    /\ companyServicetrade = {}

NextST ==
    \/ \E p \in Procs, c \in Companies, cr \in Credentials : login(p, c, cr)
    \/ \E p \in Procs, op \in {"getSession", "ensureSession", "request"},
          c \in Companies, cr \in Credentials : getSession(p, op, c, cr)
    \/ \E p \in Procs, c \in Companies : logout(p, c)
    \/ \E p \in Procs, resp \in PostResponses : PostResponse(p, resp)
    \/ \E p \in Procs, resp \in GetResponses : GetResponse(p, resp)
    \/ \E p \in Procs, st \in CallStatuses : CallResponse(p, st)
    \/ \E p \in Procs, st \in DeleteStatuses : DeleteResponse(p, st)
    \/ \E p \in Procs : NetworkError(p)
    \/ \E p \in Procs : CallReturn(p)

Init == InitAuth /\ InitST

SpecAuth == Init /\ [][NextAuth]_vars

SpecGuard == Init /\ [][NextGuard]_vars

\* the session client runs against one fixed state of the auth side
InitSession ==
    /\ Init
    /\ config.supabaseJwtSecret = KSupa
    /\ \A u \in users : u.supabase_id = None

SpecST == InitSession /\ [][NextST]_vars

\* a fetch that was issued is answered, and a returned call is read
Advance(p) ==
    \/ \E resp \in PostResponses : PostResponse(p, resp)
    \/ \E resp \in GetResponses : GetResponse(p, resp)
    \/ \E st \in CallStatuses : CallResponse(p, st)
    \/ \E st \in DeleteStatuses : DeleteResponse(p, st)
    \/ NetworkError(p)

SpecSTFair ==
    /\ SpecST
    /\ \A p \in Procs : WF_vars(Advance(p)) /\ WF_vars(CallReturn(p))

----------------------------------------------------------------------------
(* Claims about the auth middleware *)

Range(q) == {q[i] : i \in DOMAIN q}

Finished(p, op) == areq[p].pc = "done" /\ areq[p].op = op

\* Token Verifier contract of the specification, section 4.1
LocalValid(t) ==
    /\ t.key = KLocal /\ ~t.exp
    /\ t.payload.type = "access"
    /\ Truthy(t.payload.userId) /\ Truthy(t.payload.companyId)

ExternalValid(t) ==
    /\ Truthy(config.supabaseJwtSecret)
    /\ t.key = config.supabaseJwtSecret /\ ~t.exp
    /\ Truthy(t.payload.sub)

NoBearerHeader(hdr) == hdr = Nil \/ hdr[1] # "Bearer "

Authenticated(r) == r.reqUser # Nil /\ r.nexts = 1 /\ r.status = 0

Rejected(r) == r.status = 401 /\ r.nexts = 0 /\ r.reqUser = Nil

ResolverReturnedNone(r) == "resolve" \in Range(r.checks) /\ r.user = Nil

\* C1: every authenticate invocation that returns is either authenticated
\* (principal attached, next() called once, no response) or rejected (401,
\* no next(), no principal), never both; it is rejected exactly when there
\* is no Bearer header, or both checks fail, or the external check succeeds
\* and the resolver returns none.
C1_TerminalOutcome ==
    \A p \in Procs : Finished(p, "authenticate") =>
        LET r == areq[p] IN
        /\ Authenticated(r) # Rejected(r)
        /\ Rejected(r) <=>
             \/ NoBearerHeader(r.hdr)
             \/ ~LocalValid(r.hdr[2]) /\ ~ExternalValid(r.hdr[2])
             \/ ~LocalValid(r.hdr[2]) /\ ExternalValid(r.hdr[2])
                  /\ ResolverReturnedNone(r)

C1_Witness ==
    \E p \in Procs :
        /\ Finished(p, "authenticate")
        /\ Rejected(areq[p])
        /\ ~NoBearerHeader(areq[p].hdr)
        /\ ExternalValid(areq[p].hdr[2])
        /\ ResolverReturnedNone(areq[p])
        /\ areq[p].reads = 2

\* C2: the local check runs first and the external check and the resolver
\* run only after it failed; a request whose local check succeeds takes its
\* principal from the token claims and reads and writes neither the user
\* store nor the identity cache.
C2_LocalFirstNoEffects ==
    [][\A p \in Procs :
         (areq[p].pc = "idle" /\ areq'[p].op = "authenticate"
            /\ areq'[p].checks # <<>>) =>
            LET r == areq'[p] IN
            /\ r.checks[1] = "custom"
            /\ Range(r.checks) # {"custom"} => ~LocalValid(r.hdr[2])
            /\ LocalValid(r.hdr[2]) =>
                 /\ r.pc = "done"
                 /\ r.reqUser = Some([userId |-> r.hdr[2].payload.userId,
                                      email |-> r.hdr[2].payload.email,
                                      companyId |-> r.hdr[2].payload.companyId,
                                      role |-> r.hdr[2].payload.role])
                 /\ r.reads = 0 /\ r.writes = 0 /\ r.cacheOps = 0
                 /\ users' = users /\ userCache' = userCache]_vars

C2_Witness ==
    \E p \in Procs :
        /\ Finished(p, "authenticate")
        /\ ~NoBearerHeader(areq[p].hdr)
        /\ LocalValid(areq[p].hdr[2])
        /\ Authenticated(areq[p])
        /\ userCache # <<>>

\* C3: verifyCustomToken returns claims only for a token signed with the
\* service's secret, of type access, carrying userId and companyId, and
\* never throws; a password_reset, email_link, invite or refresh token, or
\* an access token missing an id, establishes no principal in authenticate.
C3_OnlyAccessTokens ==
    /\ \A t \in Tokens :
         LET v == verifyCustomToken(t) IN
         /\ ~v.threw
         /\ v.val # Nil =>
              /\ t.key = config.jwtSecret
              /\ t.payload.type = "access"
              /\ Truthy(t.payload.userId) /\ Truthy(t.payload.companyId)
              /\ v.val = Some(t.payload)
    /\ \A p \in Procs :
         /\ areq[p].thrownBy # "verify"
         /\ (Finished(p, "authenticate") /\ ~NoBearerHeader(areq[p].hdr)
               /\ areq[p].hdr[2].key = config.jwtSecret
               /\ ~(/\ areq[p].hdr[2].payload.type = "access"
                    /\ Truthy(areq[p].hdr[2].payload.userId)
                    /\ Truthy(areq[p].hdr[2].payload.companyId)))
            => Rejected(areq[p])

C3_Witness ==
    \E p \in Procs :
        /\ Finished(p, "authenticate")
        /\ ~NoBearerHeader(areq[p].hdr)
        /\ areq[p].hdr[2].key = config.jwtSecret
        /\ ~areq[p].hdr[2].exp
        /\ areq[p].hdr[2].payload.type = "refresh"
        /\ Rejected(areq[p])

\* the link writes made so far that touch user u or subject s are all (u, s)
OnlyLinks(u, s) ==
    \A w \in linkLog : (w[1] = u \/ w[2] = s) => w = <<u, s>>

\* C9: resolve(S, email) calls for a new subject S whose email matches one
\* unlinked user u, interleaved in any order: each call that returns
\* returns u, no user row is added or removed, and the store ends with
\* exactly one user linked to S, namely u.
C9_LinkIdempotent ==
    \A p \in Procs :
        (/\ Finished(p, "authenticate")
         /\ areq[p].match # None
         /\ OnlyLinks(areq[p].match, areq[p].sub)) =>
            LET r == areq[p] IN
            /\ Authenticated(r)
            /\ r.reqUser[1].userId = r.match
            /\ {u.id : u \in users} = {"u1", "u2"}
            /\ Cardinality(users) = 2
            /\ {u.id : u \in {x \in users : x.supabase_id = r.sub}} = {r.match}

\* both requests missed the cache, both found the user by email unlinked,
\* and both wrote the link
C9_Witness ==
    \E p, q \in Procs :
        /\ p # q
        /\ Finished(p, "authenticate")
        /\ areq[p].match # None /\ areq[p].writes = 1
        /\ areq[q].pc = "cacheSet" /\ areq[q].sub = areq[p].sub
        /\ areq[q].match = areq[p].match /\ areq[q].writes = 1
        /\ OnlyLinks(areq[p].match, areq[p].sub)

\* C10: when POST /auth/reset-password succeeds for user u, the identity
\* cache holds no snapshot of u once the handler has run its invalidation.
C10_ResetEvictsSnapshot ==
    [][\A p \in Procs :
         (areq[p].pc = "rpClear" /\ areq'[p].pc = "done"
            /\ areq'[p].status = 200) =>
            \A i \in DOMAIN userCache' :
                userCache'[i].user.id # areq[p].user[1].id]_vars

----------------------------------------------------------------------------
(* Claims about the ServiceTrade session client *)

CallDone(p, op) == calls[p].pc = "done" /\ calls[p].op = op

Entries(r, kind) == {i \in DOMAIN r.log : r.log[i].k = kind}

\* the token that was cached when the call began (the one its GET carried)
CachedAtStart(r) ==
    IF r.log # <<>> /\ r.log[1].k = "GET" THEN r.log[1].tok ELSE NoTok

ReloginFailedAfter(r, i) ==
    /\ i + 1 \in DOMAIN r.log
    /\ r.log[i + 1].k = "POST" /\ r.log[i + 1].tok = NoTok

StaleAt(r, i, kind) ==
    /\ i \in DOMAIN r.log
    /\ r.log[i].k = kind /\ r.log[i].status \in {401, 404}

\* C5 as stated: wherever request finds the cached session stale (in
\* getSession's validation or in the proxied call), credentials supplied and
\* the re-login failing, the caller gets the stale-session response and
\* never the synthesized "not authenticated" result.
C5_OriginalAlways ==
    \A p \in Procs :
        LET r == calls[p] IN
        (/\ CallDone(p, "request") /\ r.creds # Nil
         /\ \/ StaleAt(r, 1, "GET") /\ ReloginFailedAfter(r, 1)
            \/ \E i \in DOMAIN r.log :
                  StaleAt(r, i, "CALL") /\ ReloginFailedAfter(r, i)) =>
            r.res # Some(Synthetic)

\* C5 amended: when the first proxied call is answered 401 or 404,
\* credentials are supplied and the re-login fails, request returns that
\* first response (status and body) and makes no second proxied call; when
\* the staleness shows in getSession's validation and the login fails,
\* request returns the synthesized 401 and makes no proxied call.
C5_OriginalAfterProxiedCall ==
    \A p \in Procs :
        LET r == calls[p] IN
        (CallDone(p, "request") /\ r.creds # Nil) =>
            /\ \A i \in DOMAIN r.log :
                  (StaleAt(r, i, "CALL") /\ ReloginFailedAfter(r, i)) =>
                     /\ r.res = Some([ok |-> FALSE, status |-> r.log[i].status,
                                      body |-> <<"response", 1>>])
                     /\ r.nProxy = 1
            /\ (StaleAt(r, 1, "GET") /\ ReloginFailedAfter(r, 1)) =>
                  r.res = Some(Synthetic) /\ r.nProxy = 0

C5_Witness ==
    \E p \in Procs :
        LET r == calls[p] IN
        /\ CallDone(p, "request") /\ r.creds # Nil
        /\ Len(r.log) = 3
        /\ StaleAt(r, 2, "CALL") /\ r.log[2].status = 404
        /\ ReloginFailedAfter(r, 2)
        /\ r.res[1].status = 404

RequestInFlight(p) ==
    calls[p].op = "request" /\ calls[p].pc \in {"get", "post", "call"}

C6_AtMostOneRetry ==
    \A p \in Procs :
        LET r == calls[p] IN
        r.op = "request" =>
            /\ r.nProxy <= 2 /\ r.nLogin <= 2
            /\ Cardinality(Entries(r, "CALL")) <= 2
            /\ Cardinality(Entries(r, "POST")) <= 2
            /\ r.nProxy = 2 =>
                  \E i, j \in DOMAIN r.log :
                     /\ i < j
                     /\ StaleAt(r, i, "CALL") /\ Entries(r, "CALL") \cap 1..i = {i}
                     /\ r.creds # Nil
                     /\ r.log[j].k = "POST" /\ r.log[j].tok # NoTok
                     /\ r.tok = r.log[j].tok

\* C6: one request call makes at most two proxied calls and at most two
\* logins; the second proxied call is made only after the first was answered
\* 401 or 404, with credentials supplied and a session obtained again; and
\* when every fetch is answered the call ends.
C6_OneRetryAndTermination ==
    /\ []C6_AtMostOneRetry
    /\ \A p \in Procs :
          RequestInFlight(p) ~> (calls[p].pc \in {"done", "thrown"})

C6_Witness ==
    \E p \in Procs :
        /\ CallDone(p, "request")
        /\ calls[p].nProxy = 2 /\ calls[p].nLogin = 2

\* C7: logout always leaves the tenant without a cached session, also when
\* DELETE /auth fails (non-2xx or network error), and the failure does not
\* reach the caller.
C7_LogoutAlwaysEvicts ==
    [][\A p \in Procs :
         (calls'[p].op = "logout" /\ calls[p].pc # calls'[p].pc
            /\ calls'[p].pc \in {"done", "thrown"}) =>
            /\ calls'[p].pc = "done"
            /\ tokenCache'[calls'[p].company] = NoTok]_vars

\* C8: getSession answered 401 or 404 evicts the tenant's entry and returns
\* none; answered with a live session it returns the session and keeps
\* the entry.
C8_GetSessionEvictsOnStale ==
    [][\A p \in Procs :
         (calls[p].op = "getSession" /\ calls[p].pc = "get"
            /\ calls'[p].pc = "done") =>
            LET r == calls'[p]
                st == r.log[Len(r.log)].status
            IN
            /\ st \in {401, 404} =>
                  r.retNull /\ tokenCache'[r.company] = NoTok
            /\ st = 200 =>
                  ~r.retNull /\ tokenCache'[r.company] = tokenCache[r.company]]_vars

----------------------------------------------------------------------------
(* Claims about the identity resolver, its cache and the optional variant *)

ReqToken(r) == r.hdr[2]

\* the request went past both checks into resolveSupabaseUser
ExternalPath(r) ==
    /\ ~NoBearerHeader(r.hdr)
    /\ ~LocalValid(ReqToken(r)) /\ ExternalValid(ReqToken(r))

\* no row is linked to the token's subject and none carries its email
NoAccount(t) ==
    /\ \A u \in users : u.supabase_id # t.payload.sub
    /\ ~Truthy(t.payload.email) \/ \A u \in users : u.email # t.payload.email

\* C11: an authenticate invocation with a Bearer token that is not
\* authenticated always answers 401 "Invalid or expired token", whether
\* both checks failed or the external check passed and no local user was
\* found: status and body do not tell the two apart.
C11_UniformRejection ==
    \A p \in Procs :
        LET r == areq[p] IN
        (Finished(p, "authenticate") /\ ~NoBearerHeader(r.hdr)
           /\ ~Authenticated(r)) =>
            /\ r.status = 401 /\ r.body = "Invalid or expired token"
            /\ r.reqUser = Nil /\ r.nexts = 0

C11_Witness ==
    \E p \in Procs :
        /\ Finished(p, "authenticate")
        /\ ExternalPath(areq[p]) /\ areq[p].user = Nil
        /\ areq[p].email = None /\ areq[p].reads = 1
        /\ areq[p].body = "Invalid or expired token"

MatchedUser(r) == CHOOSE u \in users : u.id = r.match

\* C13: for an external token whose email matches an unlinked user, the
\* request that writes the link is authenticated as that user with the link
\* persisted; a later request with the same token that finds the cache entry
\* younger than the TTL makes no store lookup and no write and gets the
\* same principal.
C13_LinkThenCacheHit ==
    \A p \in Procs :
        LET r == areq[p] IN
        (Finished(p, "authenticate") /\ ExternalPath(r)
           /\ r.match # None /\ OnlyLinks(r.match, r.sub)) =>
            /\ r.writes = 1 =>
                 /\ Authenticated(r)
                 /\ MatchedUser(r).supabase_id = r.sub
                 /\ r.reqUser = Some(UserPrincipal(MatchedUser(r)))
            /\ (r.entryAge >= 0 /\ r.entryAge < CACHE_TTL_MS) =>
                 /\ r.reads = 0 /\ r.writes = 0
                 /\ Authenticated(r)
                 /\ r.reqUser = Some(UserPrincipal(MatchedUser(r)))

C13_Witness ==
    \E p \in Procs :
        LET r == areq[p] IN
        /\ Finished(p, "authenticate") /\ ExternalPath(r)
        /\ r.match # None /\ OnlyLinks(r.match, r.sub)
        /\ <<r.match, r.sub>> \in linkLog
        /\ r.entryAge = 0 /\ r.reads = 0 /\ Authenticated(r)

\* C14: a cache entry is served only while the time since its insertion is
\* strictly less than the TTL; at an age equal to or above the TTL the read
\* removes it, and resolve makes exactly one store lookup when the lookup
\* by external id finds the user.
C14_ServedOnlyBelowTtl ==
    \A p \in Procs :
        LET r == areq[p] IN
        (r.op = "authenticate" /\ "resolve" \in Range(r.checks)) =>
            /\ (r.entryAge >= 0 /\ r.entryAge < CACHE_TTL_MS) =>
                  r.pc = "done" /\ r.reads = 0
            /\ r.entryAge >= CACHE_TTL_MS =>
                  /\ ~(r.pc = "done" /\ r.reads = 0)
                  /\ r.cacheOps >= 1
                  /\ (r.pc = "done" /\ r.email = None /\ r.user # Nil) =>
                        r.reads = 1

\* C15: the identity cache never holds more than CACHE_MAX_SIZE entries.
C15_CacheBounded == Len(userCache) <= CACHE_MAX_SIZE

\* three subjects were resolved and cached, one after another, with no
\* expiry and no invalidation in between
C15_Witness ==
    \E p \in Procs :
        /\ Finished(p, "authenticate") /\ areq[p].cacheOps = 1
        /\ started = 3 /\ now = 0
        /\ \A q \in Procs \ {p} : areq[q].pc = "idle"
        /\ Len(userCache) = CACHE_MAX_SIZE
        /\ userCache[Len(userCache)].key = areq[p].sub
        /\ \E w \in linkLog : w[2] \notin CacheKeys(userCache)

Evicted == CacheKeys(userCache) \ CacheKeys(userCache')

\* C16: storing a snapshot evicts only when the cache is at capacity and the
\* key is not yet present; then exactly one entry goes, the one with the
\* earliest insertion timestamp; storing a key already cached evicts nothing.
C16_EvictOnlyForNewKey ==
    [][\A p \in Procs :
         (areq[p].pc = "cacheSet" /\ areq'[p].pc = "done") =>
            /\ Evicted # {} =>
                 /\ Len(userCache) >= CACHE_MAX_SIZE
                 /\ areq[p].sub \notin CacheKeys(userCache)
                 /\ Cardinality(Evicted) = 1
                 /\ \A i, j \in DOMAIN userCache :
                       userCache[i].key \in Evicted =>
                          userCache[i].timestamp <= userCache[j].timestamp
            /\ areq[p].sub \in CacheKeys(userCache) => Evicted = {}]_vars

\* C17: clearUserCache(k) removes the entry of k and leaves every other
\* entry as it was; clearUserCache() removes every entry; the users table is
\* not touched.
C17_InvalidateFrame ==
    [][\A p \in Procs :
         (areq[p].pc = "idle" /\ areq'[p].op = "invalidate") =>
            LET k == areq'[p].sub IN
            /\ k # None =>
                 /\ k \notin CacheKeys(userCache')
                 /\ userCache' = SelectSeq(userCache, LAMBDA e : e.key # k)
            /\ k = None => userCache' = <<>>
            /\ users' = users /\ linkLog' = linkLog]_vars

C17_Witness ==
    \E p \in Procs :
        /\ Finished(p, "invalidate")
        /\ areq[p].sub # None /\ areq[p].cacheOps = 1
        /\ userCache # <<>>

\* what either middleware attaches, from the header and the resolver's answer
ExpectedPrincipal(r) ==
    IF NoBearerHeader(r.hdr) THEN Nil
    ELSE IF LocalValid(ReqToken(r))
    THEN Some([userId |-> ReqToken(r).payload.userId,
               email |-> ReqToken(r).payload.email,
               companyId |-> ReqToken(r).payload.companyId,
               role |-> ReqToken(r).payload.role])
    ELSE IF ExternalValid(ReqToken(r)) /\ r.user # Nil
    THEN Some(UserPrincipal(r.user[1]))
    ELSE Nil

ExpectedChecks(r) ==
    IF NoBearerHeader(r.hdr) THEN <<>>
    ELSE IF LocalValid(ReqToken(r)) THEN <<"custom">>
    ELSE IF ExternalValid(ReqToken(r)) THEN <<"custom", "supabase", "resolve">>
    ELSE <<"custom", "supabase">>

\* C18: an optionalAuthenticate invocation that returns has called next()
\* once and sent no response; it attaches the principal authenticate
\* attaches for the same header and resolver answer, and no principal
\* exactly where authenticate rejects; both run the same checks and touch
\* the store and the cache only inside the resolver.
C18_OptionalMirrorsAuthenticate ==
    \A p \in Procs :
        LET r == areq[p] IN
        (r.pc = "done" /\ r.op \in ResolveOps) =>
            /\ r.reqUser = ExpectedPrincipal(r)
            /\ r.checks = ExpectedChecks(r)
            /\ "resolve" \notin Range(r.checks) =>
                  r.reads = 0 /\ r.writes = 0 /\ r.cacheOps = 0
            /\ r.op = "optional" =>
                  r.nexts = 1 /\ r.status = 0 /\ r.body = None
            /\ r.op = "authenticate" =>
                  (ExpectedPrincipal(r) = Nil <=> Rejected(r))

C18_Witness ==
    \E p \in Procs :
        /\ Finished(p, "optional")
        /\ ExternalPath(areq[p]) /\ areq[p].user = Nil
        /\ areq[p].reqUser = Nil /\ areq[p].nexts = 1

\* C19: a principal attached to a request always carries both a userId and
\* a companyId.
C19_PrincipalComplete ==
    \A p \in Procs :
        areq[p].reqUser # Nil =>
            /\ Truthy(areq[p].reqUser[1].userId)
            /\ Truthy(areq[p].reqUser[1].companyId)

C19_Witness ==
    \E p \in Procs :
        /\ Finished(p, "optional")
        /\ ExternalPath(areq[p]) /\ areq[p].reqUser # Nil
        /\ areq[p].writes = 1

\* C20: with no Supabase secret configured verifySupabaseToken returns null
\* for every token and never throws; no request reaches the resolver, and
\* authenticate reads and writes neither the users table nor the cache.
C20_ExternalDisabled ==
    ~Truthy(config.supabaseJwtSecret) =>
        /\ \A t \in Tokens :
              verifySupabaseToken(t) = [threw |-> FALSE, val |-> Nil]
        /\ \A p \in Procs :
              LET r == areq[p] IN
              r.op \in ResolveOps =>
                 /\ "resolve" \notin Range(r.checks)
                 /\ r.reads = 0 /\ r.writes = 0 /\ r.cacheOps = 0
                 /\ r.reqUser # Nil => LocalValid(ReqToken(r))
        /\ userCache = <<>> /\ linkLog = {}

\* an unsigned token carrying a subject is turned away
C20_Witness ==
    \E p \in Procs :
        /\ ~Truthy(config.supabaseJwtSecret)
        /\ Finished(p, "authenticate") /\ ~NoBearerHeader(areq[p].hdr)
        /\ ReqToken(areq[p]).key = None /\ Truthy(ReqToken(areq[p]).payload.sub)
        /\ Rejected(areq[p]) /\ areq[p].checks = <<"custom", "supabase">>

----------------------------------------------------------------------------
(* Claims about the guards *)

GuardDone(p, op) == areq[p].pc = "done" /\ areq[p].op = op

GuardIn(p) == areq[p].guard[1]

NoTenantGiven(g) ==
    ~Truthy(g.params) /\ ~Truthy(g.body) /\ ~Truthy(g.query)

Passed(r) == r.nexts = 1 /\ r.status = 0

\* C21: requireCompanyMatch answers 403 when the path parameter differs
\* from the principal's companyId, and never rejects a request that gives
\* no company id in path, body or query, with or without a principal.
C21_TenantGuard ==
    \A p \in Procs :
        GuardDone(p, "requireCompanyMatch") =>
            LET r == areq[p] IN
            /\ (r.reqUser # Nil /\ Truthy(GuardIn(p).params)
                  /\ GuardIn(p).params # r.reqUser[1].companyId) =>
                  r.status = 403 /\ r.nexts = 0
            /\ NoTenantGiven(GuardIn(p)) => Passed(r)

\* the first place, in the order path parameter, body, query, that gives a
\* company id (an empty value gives none)
FirstGiven(g) ==
    IF Truthy(g.params) THEN g.params
    ELSE IF Truthy(g.body) THEN g.body
    ELSE IF Truthy(g.query) THEN g.query
    ELSE None

\* C22: with a principal attached, requireCompanyMatch takes the company id
\* from the first of path parameter, body, query that gives one and ignores
\* the later places; it calls next() exactly when that id is absent or
\* equals the principal's companyId and answers 403 otherwise.
C22_TenantPrecedence ==
    \A p \in Procs :
        (GuardDone(p, "requireCompanyMatch") /\ areq[p].reqUser # Nil) =>
            LET r == areq[p]
                wanted == FirstGiven(GuardIn(p))
            IN
            /\ Passed(r) <=>
                  (wanted = None \/ wanted = r.reqUser[1].companyId)
            /\ ~Passed(r) => r.status = 403 /\ r.nexts = 0

\* the path parameter decides against a differing query value
C22_Witness ==
    \E p \in Procs :
        /\ GuardDone(p, "requireCompanyMatch") /\ areq[p].reqUser # Nil
        /\ GuardIn(p).params = "c1" /\ GuardIn(p).body = ""
        /\ GuardIn(p).query = "c2"
        /\ Passed(areq[p])

SingleRole(r) == [isArray |-> FALSE, one |-> r, many |-> <<>>]
RoleList(m) == [isArray |-> TRUE, one |-> None, many |-> m]

\* C23: the middleware of requireRole answers 401 when no principal is
\* attached, 403 when the principal's role is not among the allowed names,
\* and calls next() otherwise; requireRole(r) does what requireRole([r])
\* does.
C23_RoleGuard ==
    /\ \A p \in Procs :
          GuardDone(p, "requireRole") =>
             LET r == areq[p]
                 arg == GuardIn(p).roles
                 names == IF arg.isArray THEN {arg.many[i] : i \in DOMAIN arg.many}
                          ELSE {arg.one}
             IN
             /\ r.reqUser = Nil <=> r.status = 401
             /\ (r.reqUser # Nil /\ r.reqUser[1].role \notin names) <=>
                   r.status = 403
             /\ (r.reqUser # Nil /\ r.reqUser[1].role \in names) <=> Passed(r)
             /\ r.status # 0 => r.nexts = 0
    /\ \A pr \in GuardPrincipals, r \in Roles :
          roleOutcome(pr, SingleRole(r)) = roleOutcome(pr, RoleList(<<r>>))

C23_Witness ==
    \E p \in Procs :
        /\ GuardDone(p, "requireRole")
        /\ ~GuardIn(p).roles.isArray /\ GuardIn(p).roles.one = "admin"
        /\ areq[p].reqUser # Nil /\ areq[p].reqUser[1].role = "admin"
        /\ Passed(areq[p])

----------------------------------------------------------------------------
(* Claims about the session cache and the session client's operations *)

LastEntry(r) == r.log[Len(r.log)]

\* C24: a tenant's cache entry is created or changed only by the answer to
\* a granted login for that tenant, and then holds the token that login
\* was granted; every other step leaves the entry alone or removes it.
C24_EntryOnlyFromLogin ==
    [][\A c \in Companies :
         tokenCache'[c] # tokenCache[c] =>
            \/ tokenCache'[c] = NoTok
            \/ \E p \in Procs :
                  /\ calls[p].pc = "post" /\ calls[p].company = c
                  /\ Len(calls'[p].log) = Len(calls[p].log) + 1
                  /\ LastEntry(calls'[p]).k = "POST"
                  /\ LastEntry(calls'[p]).status = 200
                  /\ LastEntry(calls'[p]).tok = tokenCache'[c]]_vars

\* a request dropped the stale entry and its re-login cached a new one
C24_Witness ==
    \E p \in Procs :
        /\ CallDone(p, "request") /\ calls[p].nProxy = 2
        /\ tokenCache[calls[p].company] = calls[p].tok
        /\ \E q \in Procs \ {p} :
              calls[q].op = "logout" /\ calls[q].pc = "delete"

\* C25: login makes no fetch when username or password is empty and
\* returns null; answered 403, 400 or 500 it returns null and leaves the
\* cache as it was; granted, it caches the token and returns the same one;
\* whatever the answer, it returns.
C25_LoginOutcomes ==
    [][\A p \in Procs :
         (calls'[p].op = "login" /\ calls'[p].pc # calls[p].pc) =>
            LET r == calls'[p] IN
            /\ (calls[p].pc = "idle"
                  /\ (r.creds[1].username = "" \/ r.creds[1].password = "")) =>
                  /\ r.pc = "done" /\ r.retNull /\ r.log = <<>>
                  /\ tokenCache' = tokenCache
            /\ (calls[p].pc = "post" /\ LastEntry(r).k = "POST") =>
                  /\ r.pc = "done"
                  /\ LastEntry(r).status # 200 =>
                        r.retNull /\ tokenCache' = tokenCache
                  /\ LastEntry(r).status = 200 =>
                        /\ ~r.retNull /\ r.retTok # NoTok
                        /\ r.retTok = tokenCache'[r.company]
                        /\ r.retTok = LastEntry(r).tok]_vars

C25_Witness ==
    \E p \in Procs :
        /\ CallDone(p, "login") /\ calls[p].retNull
        /\ calls[p].log # <<>> /\ LastEntry(calls[p]).status = 403
        /\ tokenCache[calls[p].company] # NoTok

\* C26: ensureSession returns the tenant's cached token and makes no login
\* when getSession succeeds; it makes exactly one login, and returns its
\* result, only when getSession returned null and username and password
\* were both given; otherwise it returns null without a login.
C26_EnsureSession ==
    \A p \in Procs :
        CallDone(p, "ensureSession") =>
            LET r == calls[p]
                live == r.log # <<>> /\ r.log[1].k = "GET" /\ r.log[1].status = 200
                posts == Entries(r, "POST")
            IN
            /\ live => r.retTok = r.log[1].tok /\ posts = {} /\ r.nLogin = 0
            /\ posts # {} =>
                  /\ ~live /\ Cardinality(posts) = 1 /\ r.nLogin = 1
                  /\ r.creds # Nil /\ r.creds[1].username # ""
                  /\ r.retTok = LastEntry(r).tok
            /\ (~live /\ posts = {}) => r.retNull /\ r.nLogin = 0

\* the first ensureSession of a request got no token out of its fetches
FirstEnsureNone(r) ==
    \A i \in DOMAIN r.log :
        (r.log[i].k \in {"GET", "POST"}
           /\ \A j \in 1..(i - 1) : r.log[j].k # "CALL") =>
            r.log[i].got = NoTok

\* C27: a request whose ensureSession yields no session returns the
\* synthetic 401 and makes no proxied call; every proxied call carries a
\* token that this request got for its own tenant: from the answer to
\* validating the tenant's cached token, or from its own login.
C27_NoSessionNoCall ==
    [][\A p \in Procs :
         calls'[p].op = "request" =>
            LET r == calls'[p] IN
            /\ (r.pc = "get" /\ calls[p].pc # "get") =>
                  r.tok # NoTok /\ r.tok = tokenCache[r.company]
            /\ r.nProxy = calls[p].nProxy + 1 =>
                  /\ r.pc = "call" /\ r.tok # NoTok
                  /\ \E i \in DOMAIN r.log :
                        r.log[i].k \in {"GET", "POST"} /\ r.log[i].got = r.tok
            /\ (r.pc = "done" /\ calls[p].pc # "done" /\ FirstEnsureNone(r)) =>
                  /\ r.res = Some(Synthetic)
                  /\ r.nProxy = 0 /\ Entries(r, "CALL") = {}]_vars

C27_Witness ==
    \E p \in Procs :
        /\ CallDone(p, "request") /\ calls[p].res = Some(Synthetic)
        /\ Len(calls[p].log) = 2
        /\ calls[p].log[1].k = "GET" /\ calls[p].log[1].status = 500
        /\ calls[p].log[2].k = "POST" /\ calls[p].log[2].status = 400

\* C28: a fetch that fails in login, getSession, ensureSession or request
\* reaches the caller as a failure result (null, or ok false), never as a
\* thrown exception, and the cache then holds no token that a granted
\* login did not return.
C28_NetworkFailureIsResult ==
    \A p \in Procs :
        calls[p].op \in {"login", "getSession", "ensureSession", "request"} =>
            /\ calls[p].pc # "thrown"
            /\ (calls[p].log # <<>> /\ LastEntry(calls[p]).k = "ERROR") =>
                  /\ calls[p].pc = "done"
                  /\ calls[p].retNull \/ (calls[p].res # Nil /\ ~calls[p].res[1].ok)
                  /\ \A c \in Companies : tokenCache[c] < nextTok

----------------------------------------------------------------------------
(* Claims about store faults and about what the identity cache records *)

\* C29: a store fault while authenticate or optionalAuthenticate resolves
\* an external token ends in a generic server-error response: the
\* invocation leaves the fault only by answering 500 "Internal server
\* error", with no next(), no principal and no cache insertion.
C29_StoreFaultGeneric500 ==
    [][\A p \in Procs :
         (areq[p].op \in ResolveOps /\ areq[p].pc = "thrown"
            /\ areq[p].thrownBy = "store" /\ areq'[p] # areq[p]) =>
            /\ areq'[p].pc = "failed"
            /\ areq'[p].status = 500
            /\ areq'[p].body = "Internal server error"
            /\ areq'[p].nexts = 0 /\ areq'[p].reqUser = Nil
            /\ areq'[p].cacheOps = areq[p].cacheOps
            /\ userCache' = userCache]_vars

\* C30: every cache entry S -> u is a fact of the store: the store's row
\* of u has supabase_id = S.
C30_CacheMirrorsStore ==
    \A i \in DOMAIN userCache :
        \E u \in users :
            /\ u.id = userCache[i].user.id
            /\ u.supabase_id = userCache[i].key

----------------------------------------------------------------------------
(* Claims about concurrent resolves and concurrent session operations *)

\* C31: a stored non-null supabase_id is never replaced by a different
\* value, whatever the interleaving of resolves, and no two users share a
\* supabase_id.
C31_LinkWrittenOnce ==
    [][/\ \A u \in users, v \in users' :
             (u.id = v.id /\ u.supabase_id # None) =>
                 v.supabase_id = u.supabase_id
       /\ \A u \in users', v \in users' :
             (u.supabase_id # None /\ u.supabase_id = v.supabase_id) =>
                 u.id = v.id]_vars

\* the tokens a call has sent or received so far
TokensOf(r) ==
    ({r.tok} \cup {r.log[i].tok : i \in DOMAIN r.log}
             \cup {r.log[i].got : i \in DOMAIN r.log}) \ {NoTok}

\* C32: a step of a session operation for tenant A leaves the cache entry
\* of every other tenant as it was, and a proxied call for tenant A carries
\* a token that is not in another tenant's cache entry and was never sent
\* or received by a call for another tenant.
C32_TenantIsolation ==
    [][/\ \A p \in Procs, c \in Companies :
             (calls'[p] # calls[p] /\ calls'[p].company # c
                /\ calls[p].company \in {None, calls'[p].company}) =>
                 tokenCache'[c] = tokenCache[c]
       /\ \A p \in Procs :
             (calls'[p].op = "request" /\ calls'[p].pc = "call") =>
                 /\ calls'[p].tok # NoTok
                 /\ \A c \in Companies \ {calls'[p].company} :
                       tokenCache'[c] # calls'[p].tok
                 /\ \A q \in Procs :
                       (calls'[q].company \notin {None, calls'[p].company}) =>
                           calls'[p].tok \notin TokensOf(calls'[q])]_vars

\* a request for one tenant is calling out with its cached token while a
\* login for the other tenant has just cached that tenant's token
C32_Witness ==
    \E p \in Procs, q \in Procs :
        /\ calls[p].op = "request" /\ calls[p].pc = "call"
        /\ calls[p].tok = tokenCache[calls[p].company]
        /\ CallDone(q, "login") /\ calls[q].company # calls[p].company
        /\ calls[q].retTok # NoTok
        /\ calls[q].retTok = tokenCache[calls[q].company]

\* C33: a request that receives 401 or 404 for the token it used leaves a
\* different token, cached meanwhile by another call's re-login, in the
\* cache.
C33_EvictsOnlyOwnToken ==
    [][\A p \in Procs :
         (calls[p].op = "request" /\ calls[p].pc = "call"
            /\ calls'[p] # calls[p]
            /\ tokenCache[calls[p].company] \notin {NoTok, calls[p].tok}
            /\ \E q \in Procs \ {p} :
                  /\ calls[q].op = "request" /\ calls[q].phase = 2
                  /\ calls[q].company = calls[p].company
                  /\ \E i \in Entries(calls[q], "POST") :
                        calls[q].log[i].got = tokenCache[calls[p].company]) =>
             tokenCache'[calls[p].company] = tokenCache[calls[p].company]]_vars

----------------------------------------------------------------------------
(* routes/users.js: user management behind authenticate and requireRole *)

\* JavaScript values of a JSON body field: a string, or one of "undefined"
\* (the field is absent), "null", "true" and "false" (the booleans) and "0"
\* (the number)
Undefined == "undefined"
JsFalse == "false"

\* Boolean(v), !!v
ToBoolean(v) == v \notin {Undefined, "null", JsFalse, "0", ""}

MaxUserReq == 2             \* user-management requests started in one run

\* String.prototype.trim and toLowerCase on the strings of the model
Trim(s) ==
    CASE s = " N@X " -> "N@X"
      [] s = " A@X " -> "A@X"
      [] s = " st " -> "st"
      [] s = " n@x " -> "n@x"
      [] s = " a@x " -> "a@x"
      [] s = "  " -> ""
      [] OTHER -> s

ToLowerCase(s) ==
    CASE s = "N@X" -> "n@x"
      [] s = " N@X " -> " n@x "
      [] s = "A@X" -> "a@x"
      [] s = " A@X " -> " a@x "
      [] OTHER -> s

\* the rows of the users table when the access tokens were issued
IssuedFor ==
    {User("u1", "a@x", "c1", "admin", None),
     User("u3", "c@x", "c1", "admin", None),
     User("u2", "b@x", "c2", "user", None)}

\* the access token a login hands to user u: the row's claims at that time
AccessToken(u) ==
    Jwt(KLocal, FALSE, Payload("access", u.id, u.company_id, u.email, u.role, None))

UserHeaders == {Nil} \cup {<<"Bearer ", AccessToken(u)>> : u \in IssuedFor}

IdleRoute ==
    [seq |-> 0, target |-> None, role |-> Undefined, active |-> Undefined,
     email |-> None, firstName |-> None, callerWasAdmin |-> FALSE,
     targetWas |-> Nil, mails |-> 0, list |-> {}, issued |-> {}]

\* history: the caller named by the principal is, in the store, an existing
\* active admin
IsActiveAdmin(principal) ==
    \E u \in users : u.id = principal.userId /\ u.active /\ u.role = "admin"

\* authenticate for a token of the service's own: the principal is built
\* from the token's claims
AfterAuthenticate(r0, hdr) ==
    IF ~HasBearer(hdr) THEN Respond(r0, 401, "No authorization token provided")
    ELSE LET custom == verifyCustomToken(BearerToken(hdr)) IN
         IF custom.val # Nil
         THEN Proceed(r0, ClaimsPrincipal(custom.val[1]))
         ELSE RejectInvalid(r0)

\* requireRole(arg) after authenticate called next()
AfterRequireRole(r, arg) ==
    IF r.nexts = 0 THEN r
    ELSE LET out == roleOutcome(r.reqUser, arg) IN
         IF out.next THEN [r EXCEPT !.pc = "handler"]
         ELSE [r EXCEPT !.status = out.status, !.body = out.body]

\* a request to /users enters the router
UsersRequest(op, hdr, route) ==
    LET r0 == [IdleReq EXCEPT !.op = op, !.hdr = hdr, !.route = Some(route)]
        r1 == AfterAuthenticate(r0, hdr)
        r2 == IF op = "list"
              THEN (IF r1.nexts = 0 THEN r1 ELSE [r1 EXCEPT !.pc = "handler"])
              ELSE AfterRequireRole(r1, [isArray |-> FALSE, one |-> "admin", many |-> <<>>])
    IN IF r2.pc = "handler"
       THEN [r2 EXCEPT !.route = Some([route EXCEPT
                !.seq = started + 1,
                !.callerWasAdmin = IsActiveAdmin(r2.reqUser[1])])]
       ELSE r2

\* a new request takes the lowest free slot
UsersStart(p, r) ==
    /\ started < MaxUserReq
    /\ p = "p1" \/ areq["p1"].pc # "idle"
    /\ r.pc = "done" => CanFinish(p)
    /\ started' = started + 1
    /\ areq' = [areq EXCEPT ![p] = r]
    /\ UNCHANGED <<config, users, userCache, now, linkLog, stVars>>

RouteOf(p) == areq[p].route[1]

\* one step of a handler that leaves the users table alone
UsersStep(p, r) ==
    /\ r.pc = "done" => CanFinish(p)
    /\ areq' = [areq EXCEPT ![p] = r]
    /\ UNCHANGED <<config, users, userCache, now, linkLog, started, stVars>>

\* GET /users
usersList(p, hdr) ==
    /\ areq[p].pc = "idle"
    /\ LET r == UsersRequest("list", hdr, IdleRoute) IN
       UsersStart(p, IF r.pc = "handler" THEN [r EXCEPT !.pc = "lsQuery"] ELSE r)

\* SELECT ... FROM users WHERE company_id = $1
ListQuery(p) ==
    /\ areq[p].op = "list" /\ areq[p].pc = "lsQuery"
    /\ LET rows == {u \in users : u.company_id = areq[p].reqUser[1].companyId} IN
       UsersStep(p, Respond([areq[p] EXCEPT
                     !.reads = @ + 1,
                     !.route = Some([RouteOf(p) EXCEPT !.list = {u.id : u \in rows}])],
                 200, "users"))

\* POST /users/invite up to its first await
usersInvite(p, hdr, email, firstName, role) ==
    /\ areq[p].pc = "idle"
    /\ LET r == UsersRequest("invite", hdr,
                    [IdleRoute EXCEPT !.email = email, !.firstName = firstName,
                                      !.role = role])
       IN
       UsersStart(p,
           IF r.pc # "handler" THEN r
           ELSE IF ~ToBoolean(email) \/ ~ToBoolean(firstName)
           THEN Respond(r, 400, "Email and first name are required")
           ELSE [r EXCEPT !.pc = "ivExisting",
                          !.email = Trim(ToLowerCase(email)),
                          !.route = Some([r.route[1] EXCEPT
                              !.role = IF role = "admin" THEN "admin" ELSE "user"])])

\* SELECT id FROM users WHERE email = $1
InviteExisting(p) ==
    /\ areq[p].op = "invite" /\ areq[p].pc = "ivExisting"
    /\ LET r == [areq[p] EXCEPT !.reads = @ + 1] IN
       UsersStep(p, IF \E u \in users : u.email = r.email
                    THEN Respond(r, 409, "Email is already registered")
                    ELSE [r EXCEPT !.pc = "ivCompany"])

\* SELECT name FROM companies WHERE id = $1
InviteCompany(p) ==
    /\ areq[p].op = "invite" /\ areq[p].pc = "ivCompany"
    /\ UsersStep(p, [areq[p] EXCEPT !.pc = "ivInsert", !.reads = @ + 1])

\* the row INSERT INTO users (company_id, email, ..., role, active) makes,
\* with a fresh id and no password
InvitedUser(r) ==
    LET seq == r.route[1].seq
        id == IF seq = 1 THEN "n1" ELSE IF seq = 2 THEN "n2" ELSE "n3"
    IN [User(id, r.email, r.reqUser[1].companyId, r.route[1].role, None)
           EXCEPT !.pw = None]

\* INSERT INTO users: where the table has a unique index on email a second
\* row with the same email is refused and the handler's catch answers 500;
\* the migrations of this repository create no such index
InviteInsert(p) ==
    /\ areq[p].op = "invite" /\ areq[p].pc = "ivInsert"
    /\ UNCHANGED <<config, userCache, now, linkLog, started, stVars>>
    /\ \/ /\ users' = users \cup {InvitedUser(areq[p])}
          /\ areq' = [areq EXCEPT ![p] = [@ EXCEPT !.pc = "ivMail", !.writes = @ + 1]]
       \/ /\ \E u \in users : u.email = areq[p].email
          /\ CanFinish(p)
          /\ users' = users
          /\ areq' = [areq EXCEPT ![p] = Respond(@, 500, "Failed to invite user")]

\* await sendMail(...): sent, or SendGrid failed and the catch answers 500
InviteMail(p, sent) ==
    /\ areq[p].op = "invite" /\ areq[p].pc = "ivMail"
    /\ UsersStep(p, IF sent
                    THEN Respond([areq[p] EXCEPT
                             !.route = Some([RouteOf(p) EXCEPT !.mails = 1])],
                         201, "Invitation sent")
                    ELSE Respond(areq[p], 500, "Failed to invite user"))

\* PATCH /users/:id up to its first await
usersPatch(p, hdr, id, role, active) ==
    /\ areq[p].pc = "idle"
    /\ LET r == UsersRequest("patch", hdr,
                    [IdleRoute EXCEPT !.target = id, !.role = role,
                                      !.active = active])
       IN UsersStart(p, IF r.pc = "handler" THEN [r EXCEPT !.pc = "ptFind"] ELSE r)

\* "Prevent admin from deactivating or demoting themselves"
SelfPatchRefused(principal, target, role, active) ==
    IF target.id # principal.userId THEN None
    ELSE IF active = JsFalse THEN "You cannot deactivate yourself"
    ELSE IF ToBoolean(role) /\ role # "admin"
    THEN "You cannot remove your own admin role"
    ELSE None

\* bug: the tenant of the target row is not compared
SameCompany_Always(target, principal) == TRUE

\* String(targetUser.company_id) === String(req.user.companyId)
SameCompany(target, principal) == target.company_id = principal.companyId

\* SELECT ... FROM users WHERE id = $1, and the checks before the update
PatchFind(p) ==
    /\ areq[p].op = "patch" /\ areq[p].pc = "ptFind"
    /\ LET rt == RouteOf(p)
           found == OneOf({u \in users : u.id = rt.target})
           r == [areq[p] EXCEPT !.reads = @ + 1,
                                !.route = Some([rt EXCEPT !.targetWas = found])]
       IN
       UsersStep(p,
          IF found = Nil THEN Respond(r, 404, "User not found")
          ELSE IF ~SameCompany(found[1], r.reqUser[1])
          THEN Respond(r, 403, "Access denied")
          ELSE IF SelfPatchRefused(r.reqUser[1], found[1], rt.role, rt.active) # None
          THEN Respond(r, 400,
                   SelfPatchRefused(r.reqUser[1], found[1], rt.role, rt.active))
          ELSE IF rt.role = Undefined /\ rt.active = Undefined
          THEN Respond(r, 400, "No updates provided")
          ELSE [r EXCEPT !.pc = "ptUpdate"])

\* UPDATE users SET role = $1, active = $2 WHERE id = $3
PatchedUsers(rows, id, role, active) ==
    {IF u.id # id THEN u
     ELSE [u EXCEPT !.role = IF role = Undefined THEN @
                              ELSE IF role = "admin" THEN "admin" ELSE "user",
                    !.active = IF active = Undefined THEN @ ELSE ToBoolean(active)]
       : u \in rows}

PatchUpdate(p) ==
    /\ areq[p].op = "patch" /\ areq[p].pc = "ptUpdate"
    /\ users' = PatchedUsers(users, RouteOf(p).target, RouteOf(p).role,
                             RouteOf(p).active)
    /\ areq' = [areq EXCEPT ![p] = [@ EXCEPT !.pc = "ptRefetch", !.writes = @ + 1]]
    /\ UNCHANGED <<config, userCache, now, linkLog, started, stVars>>

\* SELECT ... WHERE id = $1 again; a row deleted meanwhile makes
\* updatedUser undefined and the catch answers 500
PatchRefetch(p) ==
    /\ areq[p].op = "patch" /\ areq[p].pc = "ptRefetch"
    /\ LET r == [areq[p] EXCEPT !.reads = @ + 1] IN
       UsersStep(p, IF \E u \in users : u.id = RouteOf(p).target
                    THEN Respond(r, 200, "user")
                    ELSE Respond(r, 500, "Failed to update user"))

\* DELETE /users/:id up to its first await
usersDelete(p, hdr, id) ==
    /\ areq[p].pc = "idle"
    /\ LET r == UsersRequest("delete", hdr, [IdleRoute EXCEPT !.target = id])
       IN UsersStart(p, IF r.pc = "handler" THEN [r EXCEPT !.pc = "dlFind"] ELSE r)

\* SELECT id, company_id, email FROM users WHERE id = $1, and the checks
DeleteFind(p) ==
    /\ areq[p].op = "delete" /\ areq[p].pc = "dlFind"
    /\ LET rt == RouteOf(p)
           found == OneOf({u \in users : u.id = rt.target})
           r == [areq[p] EXCEPT !.reads = @ + 1,
                                !.route = Some([rt EXCEPT !.targetWas = found])]
       IN
       UsersStep(p,
          IF found = Nil THEN Respond(r, 404, "User not found")
          ELSE IF ~SameCompany(found[1], r.reqUser[1])
          THEN Respond(r, 403, "Access denied")
          ELSE IF found[1].id = r.reqUser[1].userId
          THEN Respond(r, 400, "You cannot delete yourself")
          ELSE [r EXCEPT !.pc = "dlDelete"])

\* DELETE FROM users WHERE id = $1
DeleteRow(p) ==
    /\ areq[p].op = "delete" /\ areq[p].pc = "dlDelete"
    /\ CanFinish(p)
    /\ users' = {u \in users : u.id # RouteOf(p).target}
    /\ areq' = [areq EXCEPT ![p] =
          Respond([@ EXCEPT !.writes = @ + 1], 200, "User deleted")]
    /\ UNCHANGED <<config, userCache, now, linkLog, started, stVars>>

UsersFailure(op) ==
    CASE op = "list" -> "Failed to list users"
      [] op = "invite" -> "Failed to invite user"
      [] op = "patch" -> "Failed to update user"
      [] op = "delete" -> "Failed to delete user"

\* db.query rejects: the handler's catch answers 500
UsersStoreFault(p) ==
    /\ areq[p].pc \in {"lsQuery", "ivExisting", "ivCompany", "ivInsert",
                       "ptFind", "ptUpdate", "ptRefetch", "dlFind", "dlDelete"}
    /\ UsersStep(p, Respond(areq[p], 500, UsersFailure(areq[p].op)))

\* what the requests of the model carry: ids in the path, and body fields
UsersInputs ==
    [id |-> {"u1", "u2", "u3", "u9"},
     email |-> {Undefined, "a@x", "n@x", " N@X "},
     firstName |-> {"", "Al"},
     role |-> {Undefined, "null", "admin", "user"},
     active |-> {Undefined, "true", JsFalse, "0"}]

InitUsersMgmt ==
    /\ InitST
    /\ config = [jwtSecret |-> KLocal, supabaseJwtSecret |-> KSupa]
    /\ users = IssuedFor
    /\ userCache = <<>>
    /\ now = 0
    /\ linkLog = {}
    /\ areq = [p \in Procs |-> IdleReq]

NextUsers ==
    \/ \E p \in Procs, hdr \in UserHeaders : usersList(p, hdr)
    \/ \E p \in Procs : ListQuery(p)
    \/ \E p \in Procs, hdr \in UserHeaders, e \in UsersInputs.email,
          f \in UsersInputs.firstName, r \in {Undefined, "admin"} :
             usersInvite(p, hdr, e, f, r)
    \/ \E p \in Procs : InviteExisting(p)
    \/ \E p \in Procs : InviteCompany(p)
    \/ \E p \in Procs : InviteInsert(p)
    \/ \E p \in Procs, sent \in BOOLEAN : InviteMail(p, sent)
    \/ \E p \in Procs, hdr \in UserHeaders, id \in UsersInputs.id,
          r \in UsersInputs.role, a \in UsersInputs.active :
             usersPatch(p, hdr, id, r, a)
    \/ \E p \in Procs : PatchFind(p)
    \/ \E p \in Procs : PatchUpdate(p)
    \/ \E p \in Procs : PatchRefetch(p)
    \/ \E p \in Procs, hdr \in UserHeaders, id \in UsersInputs.id :
          usersDelete(p, hdr, id)
    \/ \E p \in Procs : DeleteFind(p)
    \/ \E p \in Procs : DeleteRow(p)
    \/ \E p \in Procs : UsersStoreFault(p)
    \/ \E p \in Procs : Return(p)

SpecUsers == InitUsersMgmt /\ [][NextUsers]_vars

----------------------------------------------------------------------------
(* routes/servicetrade.js: POST /integrations/servicetrade/credentials *)

\* bug: a row is added whether or not the company has one
upsert_InsertOnly(rows, companyId, username, password) ==
    rows \cup {[company_id |-> companyId, username |-> username,
                password |-> password]}

\* INSERT INTO company_servicetrade ... ON CONFLICT (company_id) DO UPDATE
upsert(rows, companyId, username, password) ==
    {row \in rows : row.company_id # companyId}
        \cup {[company_id |-> companyId, username |-> username,
               password |-> password]}

\* the handler up to its first await; companyId is req.user.companyId
saveCredentials(p, companyId, username, password) ==
    /\ CallCanStart(p)
    /\ started' = started + 1
    /\ LET r == NewCall("credentials", companyId,
                        Some([username |-> username, password |-> password]))
       IN
       IF ~Truthy(username) \/ ~Truthy(password)
       THEN /\ CallCanFinish(p)
            /\ calls' = [calls EXCEPT ![p] = [r EXCEPT !.pc = "done", !.http = 400]]
       ELSE calls' = [calls EXCEPT ![p] =
               [r EXCEPT !.pc = "upsert",
                         !.creds = Some([username |-> Trim(username),
                                         password |-> password])]]
    /\ UNCHANGED <<tokenCache, nextTok, authVars>>

\* await credentialsDb.upsert(...) resolved; servicetrade.login up to its fetch
CredentialsUpsert(p) ==
    /\ calls[p].op = "credentials" /\ calls[p].pc = "upsert"
    /\ companyServicetrade' =
          upsert(companyServicetrade, calls[p].company,
                 calls[p].creds[1].username, calls[p].creds[1].password)
    /\ IF ~HasLogin(calls[p].creds)
       THEN /\ CallCanFinish(p)
            /\ calls' = [calls EXCEPT ![p] = afterLogin(@, NoTok)]
       ELSE calls' = [calls EXCEPT ![p] = [@ EXCEPT !.pc = "post", !.nLogin = 1]]
    /\ UNCHANGED <<tokenCache, nextTok, started, config, users, userCache, now,
                   linkLog, areq>>

\* the upsert or login's fetch rejects: the handler's catch answers 500
CredentialsFault(p) ==
    /\ calls[p].op = "credentials" /\ calls[p].pc \in {"upsert", "post"}
    /\ CallCanFinish(p)
    /\ calls' = [calls EXCEPT ![p] =
          [Logged(@, "ERROR", @.tok, 0) EXCEPT !.pc = "done", !.http = 500]]
    /\ UNCHANGED <<tokenCache, nextTok, started, authVars>>

\* req.body.username and req.body.password values
CredentialInputs ==
    [username |-> {"", "  ", " st ", "user"}, password |-> {"", "pw", " pw "}]

\* tenant c2 has saved credentials and a live session
InitCreds ==
    /\ config = [jwtSecret |-> KLocal, supabaseJwtSecret |-> KSupa]
    /\ users = {User("u1", "a@x", "c1", "admin", None),
                User("u2", "b@x", "c2", "user", None)}
    /\ userCache = <<>>
    /\ now = 0
    /\ linkLog = {}
    /\ areq = [p \in Procs |-> IdleReq]
    /\ tokenCache = [c \in Companies |-> IF c = "c2" THEN 1 ELSE NoTok]
    /\ nextTok = 2
    /\ started = 0
    /\ calls = [p \in Procs |-> IdleCall]
    /\ companyServicetrade =
          {[company_id |-> "c2", username |-> "other", password |-> "otherpw"]}

NextCreds ==
    \/ \E p \in Procs, c \in Companies, u \in CredentialInputs.username,
          pw \in CredentialInputs.password : saveCredentials(p, c, u, pw)
    \/ \E p \in Procs : CredentialsUpsert(p)
    \/ \E p \in Procs : CredentialsFault(p)
    \/ \E p \in Procs, resp \in PostResponses : PostResponse(p, resp)
    \/ \E p \in Procs : CallReturn(p)

SpecCreds == InitCreds /\ [][NextCreds]_vars

----------------------------------------------------------------------------
(* auth.routes.js: forgot-password, magic-link and verify-email-link *)

\* the message both outcomes of an email-link request answer with
SuccessMessage(kind) ==
    IF kind = "forgot-password"
    THEN "If an account exists with this email, you will receive a password reset link."
    ELSE "If an account exists with this email, you will receive a sign-in link."

\* jwt.sign({email, type}, config.jwt.secret, {expiresIn})
LinkToken(kind, email) ==
    Jwt(config.jwtSecret, FALSE,
        Payload(IF kind = "forgot-password" THEN "password_reset" ELSE "email_link",
                None, None, email, None, None))

\* POST /auth/forgot-password and POST /auth/magic-link up to the await
emailLink(p, kind, email) ==
    /\ CanStart(p)
    /\ started' = started + 1
    /\ UNCHANGED <<config, users, userCache, now, linkLog, stVars>>
    /\ LET r0 == [IdleReq EXCEPT !.op = kind,
                     !.route = Some([IdleRoute EXCEPT !.email = email])]
       IN
       IF ~ToBoolean(email)
       THEN /\ CanFinish(p)
            /\ areq' = [areq EXCEPT ![p] = Respond(r0, 400, "Email is required")]
       ELSE areq' = [areq EXCEPT ![p] =
                [r0 EXCEPT !.pc = "elFind", !.email = ToLowerCase(Trim(email))]]

\* await authService.getUserByEmail(normalized); a rejection goes to the
\* handler's catch, which answers like success
EmailLinkFind(p, ok) ==
    /\ areq[p].op \in {"forgot-password", "magic-link"} /\ areq[p].pc = "elFind"
    /\ UNCHANGED <<config, users, userCache, now, linkLog, started, stVars>>
    /\ LET user == IF ok THEN getUserByEmail(areq[p].email) ELSE Nil
           r == [areq[p] EXCEPT !.user = user, !.reads = @ + 1]
       IN
       IF user = Nil
       THEN /\ CanFinish(p)
            /\ areq' = [areq EXCEPT ![p] = Respond(r, 200, SuccessMessage(r.op))]
       ELSE areq' = [areq EXCEPT ![p] = [r EXCEPT !.pc = "elSend"]]

\* bug: a failed send is reported
EmailLinkSend_FailureShown(p, outcome) ==
    /\ areq[p].op \in {"forgot-password", "magic-link"} /\ areq[p].pc = "elSend"
    /\ CanFinish(p)
    /\ UNCHANGED <<config, users, userCache, now, linkLog, started, stVars>>
    /\ areq' = [areq EXCEPT ![p] =
          IF outcome = "sent"
          THEN Respond([@ EXCEPT !.route = Some([@[1] EXCEPT
                            !.mails = 1,
                            !.issued = {LinkToken(areq[p].op, areq[p].email)}])],
                       200, SuccessMessage(areq[p].op))
          ELSE IF outcome = "failed"
          THEN Respond(@, 500, "Failed to send email")
          ELSE Respond(@, 200, SuccessMessage(areq[p].op))]

\* await sendMail(...): sent; skipped because SendGrid is not configured;
\* or failed, which the handler's catch answers like success
EmailLinkSend(p, outcome) ==
    /\ areq[p].op \in {"forgot-password", "magic-link"} /\ areq[p].pc = "elSend"
    /\ CanFinish(p)
    /\ UNCHANGED <<config, users, userCache, now, linkLog, started, stVars>>
    /\ areq' = [areq EXCEPT ![p] =
          IF outcome = "sent"
          THEN Respond([@ EXCEPT !.route = Some([@[1] EXCEPT
                            !.mails = 1,
                            !.issued = {LinkToken(areq[p].op, areq[p].email)}])],
                       200, SuccessMessage(areq[p].op))
          ELSE Respond(@, 200, SuccessMessage(areq[p].op))]

\* bug: a token of any type is taken for a sign-in link
emailLinkClaims_AnyType(tok) ==
    LET d == jwtVerify(tok, config.jwtSecret) IN
    IF d.threw \/ ~Truthy(d.val[1].email) THEN None ELSE d.val[1].email

\* jwt.verify(token, config.jwt.secret) and the type test: the email of a
\* sign-in link, or none
emailLinkClaims(tok) ==
    LET d == jwtVerify(tok, config.jwtSecret) IN
    IF d.threw \/ d.val[1].type # "email_link" \/ ~Truthy(d.val[1].email)
    THEN None ELSE d.val[1].email

\* authService.generateRefreshToken(tokenPayload)
RefreshToken(u) ==
    Jwt(KLocal, FALSE, Payload("refresh", u.id, u.company_id, u.email, u.role, None))

\* POST /auth/verify-email-link up to its await
verifyEmailLink(p, tok) ==
    /\ CanStart(p)
    /\ started' = started + 1
    /\ UNCHANGED <<config, users, userCache, now, linkLog, stVars>>
    /\ LET r0 == [IdleReq EXCEPT !.op = "verify-email-link", !.tok = tok] IN
       IF tok = Nil
       THEN /\ CanFinish(p)
            /\ areq' = [areq EXCEPT ![p] = Respond(r0, 400, "Token is required")]
       ELSE IF emailLinkClaims(tok[1]) = None
       THEN /\ CanFinish(p)
            /\ areq' = [areq EXCEPT ![p] =
                  Respond(r0, 400, "Invalid or expired link")]
       ELSE areq' = [areq EXCEPT ![p] =
                [r0 EXCEPT !.pc = "veFind", !.email = emailLinkClaims(tok[1]),
                           !.route = Some(IdleRoute)]]

\* await authService.getUserByEmail(decoded.email), then the tokens
VerifyFind(p, ok) ==
    /\ areq[p].op = "verify-email-link" /\ areq[p].pc = "veFind"
    /\ CanFinish(p)
    /\ UNCHANGED <<config, users, userCache, now, linkLog, started, stVars>>
    /\ LET user == IF ok THEN getUserByEmail(areq[p].email) ELSE Nil
           r == [areq[p] EXCEPT !.user = user, !.reads = @ + 1]
       IN
       areq' = [areq EXCEPT ![p] =
          IF ~ok THEN Respond(r, 500, "Verification failed")
          ELSE IF user = Nil \/ ~user[1].active
          THEN Respond(r, 400, "Invalid or expired link")
          ELSE Respond([r EXCEPT !.route = Some([@[1] EXCEPT
                           !.issued = {AccessToken(user[1]), RefreshToken(user[1])}])],
                       200, "Sign-in successful")]

\* the tokens and emails the requests of the model carry
LinkInputs ==
    [token |-> ResetTokens \cup
               {Some(Jwt(KLocal, e, Payload("email_link", None, None, m, None, None))) :
                   e \in BOOLEAN, m \in {"a@x", "b@x", "zz@x"}},
     email |-> {Undefined, "", "  ", " A@X ", "b@x", "zz@x"}]

\* u1 is active, u2 has been deactivated
InitLinks ==
    /\ InitST
    /\ config = [jwtSecret |-> KLocal, supabaseJwtSecret |-> KSupa]
    /\ users = {User("u1", "a@x", "c1", "admin", None),
                [User("u2", "b@x", "c2", "user", None) EXCEPT !.active = FALSE]}
    /\ userCache = <<>>
    /\ now = 0
    /\ linkLog = {}
    /\ areq = [p \in Procs |-> IdleReq]

NextLinks ==
    \/ \E p \in Procs, k \in {"forgot-password", "magic-link"},
          e \in LinkInputs.email : emailLink(p, k, e)
    \/ \E p \in Procs, ok \in BOOLEAN : EmailLinkFind(p, ok)
    \/ \E p \in Procs, o \in {"sent", "skipped", "failed"} : EmailLinkSend(p, o)
    \/ \E p \in Procs, t \in LinkInputs.token : verifyEmailLink(p, t)
    \/ \E p \in Procs, ok \in BOOLEAN : VerifyFind(p, ok)
    \/ \E p \in Procs, t \in LinkInputs.token, pw \in NewPasswords :
          resetPassword(p, t, pw)
    \/ \E p \in Procs : ResetFindUser(p)
    \/ \E p \in Procs : ResetUpdatePassword(p)
    \/ \E p \in Procs : ResetClearCache(p)
    \/ \E p \in Procs : ResetStoreFault(p)
    \/ \E p \in Procs : Return(p)

SpecLinks == InitLinks /\ [][NextLinks]_vars

----------------------------------------------------------------------------
(* Claims about user management *)

UserWrites == {"invite", "patch", "delete"}

\* the step is a write to the users table by the request in slot p
WritesUsers(p) ==
    /\ areq[p].op \in UserWrites
    /\ areq'[p].writes = areq[p].writes + 1

\* C34: invite, update and delete take effect only for a caller who, when
\* the call is made, is an existing active user with role admin in the
\* users table.
C34_AdminAtCallTime ==
    [][users' # users =>
          \E p \in Procs : WritesUsers(p) /\ RouteOf(p).callerWasAdmin]_vars

\* C35: an update or delete whose target is the caller's own row, the
\* caller being an active admin, leaves that row present, admin and active,
\* whatever role and active the body carries.
C35_NoSelfDemotion ==
    [][\A p \in Procs :
         (/\ WritesUsers(p) /\ areq[p].op \in {"patch", "delete"}
          /\ RouteOf(p).target = areq[p].reqUser[1].userId
          /\ \E u \in users :
                u.id = RouteOf(p).target /\ u.role = "admin" /\ u.active) =>
             \E u \in users' :
                u.id = RouteOf(p).target /\ u.role = "admin" /\ u.active]_vars

\* C36: the list holds exactly the users of the principal's company; every
\* row an invite, update or delete adds, changes or removes belongs to the
\* principal's company; an update or delete that finds its target in
\* another company answers 403 and leaves the table as it was; nothing
\* else writes the table.
C36_TenantScoped ==
    [][/\ users' # users => \E p \in Procs : WritesUsers(p)
       /\ \A p \in Procs :
             LET r == areq'[p] IN
             /\ (areq[p].op = "list" /\ areq[p].pc = "lsQuery" /\ r.status = 200) =>
                   r.route[1].list =
                      {u.id : u \in {v \in users :
                                  v.company_id = r.reqUser[1].companyId}}
             /\ WritesUsers(p) =>
                   \A u \in (users \ users') \cup (users' \ users) :
                       u.company_id = areq[p].reqUser[1].companyId
             /\ (/\ areq[p].pc \in {"ptFind", "dlFind"}
                 /\ r.route[1].targetWas # Nil
                 /\ r.route[1].targetWas[1].company_id
                       # r.reqUser[1].companyId) =>
                   /\ r.pc = "done" /\ r.status = 403 /\ r.body = "Access denied"
                   /\ users' = users]_vars

\* an admin of c1 tried to change a user of c2 and was refused
C36_Witness ==
    \E p \in Procs :
        /\ Finished(p, "patch") /\ areq[p].status = 403
        /\ areq[p].body = "Access denied"
        /\ RouteOf(p).targetWas # Nil
        /\ RouteOf(p).targetWas[1].company_id # areq[p].reqUser[1].companyId
        /\ users = IssuedFor

\* C37: no two rows of the users table share an email, and an invite whose
\* email a row already holds when it comes to insert is answered 409 and
\* adds nothing.
C37_EmailUnique ==
    [][/\ \A u \in users', v \in users' : u.email = v.email => u.id = v.id
       /\ \A p \in Procs :
             (/\ areq[p].op = "invite" /\ areq[p].pc = "ivInsert"
              /\ areq'[p].pc # "ivInsert"
              /\ \E u \in users : u.email = areq[p].email) =>
                 /\ areq'[p].status = 409 /\ users' = users]_vars

----------------------------------------------------------------------------
(* Claims about the email-link routes *)

EmailLinkOps == {"forgot-password", "magic-link"}

\* C38: for a non-empty email, forgot-password and magic-link answer 200
\* with the one message of the route, whether or not a user has the email
\* and whether or not the lookup or the mail fails; a mail goes out only
\* when the lookup found a user with the normalized email.
C38_NoAccountOracle ==
    \A p \in Procs :
        (areq[p].op \in EmailLinkOps /\ areq[p].pc = "done"
           /\ RouteOf(p).email \notin {Undefined, "null", ""}) =>
            /\ areq[p].status = 200
            /\ areq[p].body =
                  (IF areq[p].op = "forgot-password"
                   THEN "If an account exists with this email, you will receive a password reset link."
                   ELSE "If an account exists with this email, you will receive a sign-in link.")
            /\ RouteOf(p).mails > 0 =>
                  /\ areq[p].user # Nil
                  /\ areq[p].user[1].email = areq[p].email
                  /\ \E u \in users : u.id = areq[p].user[1].id

\* the account exists, the mail did not go out, the answer is the same
C38_Witness ==
    \E p \in Procs :
        /\ Finished(p, "forgot-password")
        /\ areq[p].user # Nil /\ RouteOf(p).mails = 0
        /\ areq[p].status = 200

\* a token the service signed, unexpired, of the given type
SignedOfType(t, type) ==
    t.key = config.jwtSecret /\ ~t.exp /\ t.payload.type = type

\* C39: the users table changes only in a reset-password request whose
\* token is signed, unexpired and of type password_reset and whose email
\* is that of an existing user, and then only that user's password
\* changes; verify-email-link issues tokens only for a signed, unexpired
\* email_link token whose email is that of an existing active user, and
\* issues that user's access and refresh tokens.
C39_SinglePurposeTokens ==
    [][/\ users' # users =>
             \E p \in Procs :
                /\ areq[p].op = "reset" /\ areq[p].pc = "rpUpdate"
                /\ SignedOfType(areq[p].tok[1], "password_reset")
                /\ \E u \in users : u.email = areq[p].tok[1].payload.email
                /\ users' = {IF u.email = areq[p].tok[1].payload.email
                             THEN [u EXCEPT !.pw = areq[p].newPw] ELSE u :
                                u \in users}
       /\ \A p \in Procs :
             (areq'[p].op = "verify-email-link" /\ areq'[p].route # Nil
                /\ areq'[p].route[1].issued # {}) =>
                 /\ SignedOfType(areq'[p].tok[1], "email_link")
                 /\ areq'[p].status = 200
                 /\ \E u \in users :
                       /\ u.email = areq'[p].tok[1].payload.email /\ u.active
                       /\ areq'[p].route[1].issued =
                             {AccessToken(u), RefreshToken(u)}
       /\ \A p \in Procs :
             (areq'[p].op = "verify-email-link" /\ areq'[p].pc = "done"
                /\ areq'[p].status = 200) =>
                 areq'[p].route[1].issued # {}]_vars

\* a sign-in link was exchanged for the user's tokens
C39_Witness ==
    \E p \in Procs :
        /\ Finished(p, "verify-email-link") /\ areq[p].status = 200
        /\ RouteOf(p).issued # {}
        /\ \E q \in Procs :
              areq[q].op = "reset" /\ areq[q].pc = "rpClear"

----------------------------------------------------------------------------
(* Claims about the credentials route *)

\* the row a credentials request stores: username trimmed, password as sent
RowOf(r) ==
    [company_id |-> r.company, username |-> r.creds[1].username,
     password |-> r.creds[1].password]

\* C40: a credentials request with username and password stores its row
\* (username trimmed) for the caller's tenant before login's fetch goes out,
\* replacing only that tenant's row; no later step of the request touches
\* the table, whatever login answers; when the request has answered 200 or
\* 403 the tenant has exactly one row; the session cache changes only at
\* the caller's key, only on a granted login, and then the answer is 200.
C40_CredentialsKept ==
    [][/\ \A p \in Procs :
             (calls[p].op = "credentials" /\ calls[p].pc = "upsert"
                /\ calls'[p].pc # "upsert" /\ calls'[p].http # 500) =>
                 /\ RowOf(calls[p]) \in companyServicetrade'
                 /\ RowOf(calls[p]).username \in {"", "st", "user"}
                 /\ \A row \in companyServicetrade' :
                       row.company_id = calls[p].company => row = RowOf(calls[p])
                 /\ \A row \in companyServicetrade \cup companyServicetrade' :
                       row.company_id # calls[p].company =>
                          row \in companyServicetrade \cap companyServicetrade'
                 /\ \A q \in Procs : Len(calls[q].log) = Len(calls'[q].log)
       /\ companyServicetrade' # companyServicetrade =>
             \E p \in Procs : calls[p].op = "credentials" /\ calls[p].pc = "upsert"
                                 /\ calls'[p].pc # "upsert"
       /\ \A p \in Procs :
             (calls'[p].op = "credentials" /\ calls'[p].pc = "done"
                /\ calls'[p].http \in {200, 403}) =>
                 Cardinality({row \in companyServicetrade' :
                                 row.company_id = calls'[p].company}) = 1
       /\ \A c \in Companies :
             tokenCache'[c] # tokenCache[c] =>
                \E p \in Procs :
                   /\ calls[p].op = "credentials" /\ calls[p].pc = "post"
                   /\ calls[p].company = c
                   /\ calls'[p].http = 200
                   /\ tokenCache'[c] = nextTok /\ nextTok' = nextTok + 1
                   /\ LastEntry(calls'[p]).k = "POST"
                   /\ LastEntry(calls'[p]).status = 200
       /\ \A p \in Procs :
             (calls[p].op = "credentials" /\ calls[p].pc = "post"
                /\ calls'[p].pc = "done" /\ calls'[p].http # 200) =>
                 tokenCache' = tokenCache]_vars

\* a tenant that had a row saved again, login was refused, the row stays
C40_Witness ==
    \E p \in Procs :
        /\ calls[p].op = "credentials" /\ calls[p].pc = "done"
        /\ calls[p].http = 403 /\ calls[p].nLogin = 1
        /\ calls[p].company = "c2"
        /\ RowOf(calls[p]) \in companyServicetrade
        /\ RowOf(calls[p]).password = " pw "
        /\ tokenCache["c2"] = 1

====
